---- MODULE Spec2Model ----
(***************************************************************************)
(* QuantScreen: the daily analysis orchestrator (run_daily_analysis), the  *)
(* pick generation over the preset screens (_generate_daily_picks) and the *)
(* two paths of the screener (run_screen: cached replay and live).         *)
(*                                                                         *)
(* Scaling.  Market caps are counted in units of $50M (50_000_000 -> 1).   *)
(* z_score is counted in hundredths (2.99 -> 299), earnings_yield and     *)
(* return_on_capital in percent (0.20 -> 20).  A Python bool is the        *)
(* integer it equals (False = 0, True = 1).  An optional value is a tuple: *)
(* <<>> is None, <<v>> is the value v.  A dict is a function; a key that   *)
(* is not in its DOMAIN is absent.                                         *)
(*                                                                         *)
(* Scheduling.  The invocations of run_daily_analysis are coroutines of    *)
(* one event loop (asyncio.create_task, AsyncIOScheduler) and the database *)
(* calls are synchronous, so the code between two awaits is one step.  The *)
(* database is PostgreSQL (config.py): it enforces the foreign key of      *)
(* daily_picks.run_id, and an UPDATE of a deleted row fails the commit.    *)
(***************************************************************************)
EXTENDS Integers, Sequences, FiniteSets, TLC

VARIABLES
    companies,    \* the companies table: ticker -> Company row
    fetched,      \* what fetch-and-score yields for a ticker: ticker -> metrics dict
    today,        \* date.today(), a day number
    runs,         \* the daily_analysis_runs table: id -> row
    picks,        \* the daily_picks table, rows in insertion order
    strategies,   \* the stock_strategies table (a set of rows)
    nextRunId,    \* the autoincrement of daily_analysis_runs.id
    inv,          \* the invocations of run_daily_analysis: slot -> locals
    triggers,     \* number of invocations started so far
    overlapped,   \* history: some invocation started while another was in flight
    request,      \* the ScreenerRequest of the current run_screen call
    cachedOut,    \* result of _run_screen_from_cache for request (<<>>: not run, <<r>>: r)
    liveOut,      \* result of run_screen's live path for request
    order1,       \* insertion order of the results map in the first evaluation
    order2,       \* insertion order of the results map in the second evaluation
    out1,         \* picks stored by the first evaluation of _generate_daily_picks
    out2,         \* picks stored by the second evaluation
    screenOut,    \* one screen evaluated under a result cap: <<>> or <<[cfg, rows]>>
    snap,         \* the FundamentalData snapshot handed to the formula engine
    formulas,     \* calculate_all(snap): <<>> before the call
    ratios,       \* calculate_valuation_ratios(snap): <<>> before the call
    brief,        \* response of GET /daily-brief: <<>> before the call
    todaysPicks,  \* response of GET /daily-brief/picks: <<>> before the call
    universe,     \* len(companies) of one _fetch_and_calculate_all call
    task,         \* the process_one coroutines: company index -> position
    semaphore,    \* the value of asyncio.Semaphore(concurrency)
    loop,         \* the batch loop: its position and its index i
    results,      \* the results dict: the company indexes that have an entry
    pauses,       \* history: the loop indexes i after whose batch the loop slept
    processed,    \* history: company index -> number of process_one calls
    fault,        \* input: the company whose fetch or scoring fails, and how
    stmt,         \* _build_fundamental_data_sync: the statement fetched (1 income, 2 balance, 3 cashflow)
    attempt,      \* _with_retry: the loop variable of the running call
    answers,      \* history: statement -> what func() did at each attempt
    sleeps,       \* history: statement -> the sleeps of its _with_retry call
    frames,       \* the DataFrames returned so far (income, balance, cashflow)
    built,        \* what _build_fundamental_data_sync returned: <<>> before
    closes,       \* process_ticker: the closing prices, oldest first, in ticks of $0.0001
    indicators,   \* what calculate_rsi, calculate_macd, calculate_atr, calculate_sma return
    ticker_metrics, \* process_ticker: the metrics dict of the ticker's pick
    plans         \* process_ticker: the strategies list built so far

\* the variables of the orchestrator, the screener and the pick generation
dailyVars == <<companies, fetched, today, runs, picks, strategies, nextRunId, inv,
               triggers, overlapped, request, cachedOut, liveOut, order1, order2,
               out1, out2>>

\* the variables of the other components
engineVars == <<snap, formulas, ratios>>
briefVars == <<brief, todaysPicks>>
fetchVars == <<universe, task, semaphore, loop, results, pauses, processed, fault>>
retryVars == <<stmt, attempt, answers, sleeps, frames, built>>
planVars == <<closes, indicators, ticker_metrics, plans>>
lateVars == <<retryVars, planVars>>
otherVars == <<screenOut, engineVars, briefVars, fetchVars, lateVars>>

vars == <<dailyVars, otherVars>>

----------------------------------------------------------------------------
(* Bounds of the model *)

\* number of run_daily_analysis invocations in one behaviour
MaxTriggers == 2
\* days are 1..MaxDay
MaxDay == 2
\* a price history has 1..MaxHistory closes
MaxHistory == 4
\* the window of find_support_resistance, scaled to the histories
SRWindow == 1
\* a fetch stage is handed 0..MaxCompanies active companies
MaxCompanies == 21
\* the fetch stage with one failing company is handed FaultUniverse companies
FaultUniverse == 11
\* a ScreenerRequest's limit is in 1..MaxLimit
MaxLimit == 2
\* exception messages are up to ErrMsgLimit + MaxErrExtra characters long
MaxErrExtra == 1

(* Program constants *)

\* str(e)[:1000]
ErrMsgLimit == 1000
\* "limit": 50 of every preset screen
PresetLimit == 50
\* companies[:50] of the live path
LiveCap == 50
\* .limit(200) of the live path's company query
LiveQueryCap == 200
\* batch_size = 10 of _fetch_and_calculate_all
batch_size == 10
\* concurrency: int = 4 of _fetch_and_calculate_all
concurrency == 4
\* max_retries: int = 3 of _with_retry
max_retries == 3
\* base_delay: float = 2.0 of _with_retry
base_delay == 2
\* every fifth company of the universe is an ETF
EtfEvery == 5

Tickers == {"AAA", "BBB", "CCC"}
Slots == {"s1", "s2"}

None == <<>>
Some(v) == <<v>>

\* dict.get(key)
Get(d, k) == IF k \in DOMAIN d THEN d[k] ELSE None

\* x or 0 for an optional integer
OrZero(x) == IF x = None THEN 0 ELSE x[1]

\* Python truthiness of an optional number: None, 0 and False are falsy
Truthy(x) == x # None /\ x[1] # 0

Min(a, b) == IF a < b THEN a ELSE b

RECURSIVE SeqToSet(_)
SeqToSet(s) == IF s = <<>> THEN {} ELSE {Head(s)} \cup SeqToSet(Tail(s))

\* the sequences over S without repetition, of every length
RECURSIVE Orders(_)
Orders(S) ==
    IF S = {} THEN {<<>>}
    ELSE {<<>>} \cup UNION {{<<x>> \o o : o \in Orders(S \ {x})} : x \in S}

\* the orders of exactly the set S
Perms(S) == {o \in Orders(S) : Len(o) = Cardinality(S)}

----------------------------------------------------------------------------
(* A filter (metric, operator, value).  The value of a "between" filter is *)
(* the list [value, hi]; hi is unused by the other operators.              *)

Filter(metric, operator, value) ==
    [metric |-> metric, operator |-> operator, value |-> value, hi |-> 0]

(* PRESET_SCREENS, in the dict's order *)

PRESET_SCREENS ==
    << [id |-> "magic_formula",
        filters |-> <<>>,
        exclude_sectors |-> {"Financial Services", "Utilities"},
        min_market_cap |-> 1,
        sort_by |-> "magic_formula_rank", sort_order |-> "asc",
        limit |-> PresetLimit],
       [id |-> "deep_value",
        filters |-> << Filter("acquirers_multiple", "<", 8),
                       Filter("f_score", ">=", 5) >>,
        exclude_sectors |-> {"Financial Services"},
        min_market_cap |-> 2,
        sort_by |-> "acquirers_multiple", sort_order |-> "asc",
        limit |-> PresetLimit],
       [id |-> "quality_value",
        filters |-> << Filter("f_score", ">=", 7),
                       Filter("pe_ratio", "<", 20),
                       Filter("roe", ">", 15) >>,
        exclude_sectors |-> {},
        min_market_cap |-> 2,
        sort_by |-> "f_score", sort_order |-> "desc",
        limit |-> PresetLimit],
       [id |-> "safe_stocks",
        filters |-> << Filter("z_score", ">", 299),
                       Filter("f_score", ">=", 6),
                       Filter("m_score_flag", "==", 0) >>,
        exclude_sectors |-> {},
        min_market_cap |-> 2,
        sort_by |-> "z_score", sort_order |-> "desc",
        limit |-> PresetLimit],
       [id |-> "red_flag_watch",
        filters |-> << Filter("m_score", ">", -178) >>,
        exclude_sectors |-> {},
        min_market_cap |-> 10,
        sort_by |-> "m_score", sort_order |-> "desc",
        limit |-> PresetLimit] >>

----------------------------------------------------------------------------
(* Sorting: list.sort(key=..., reverse=...) is stable, also when reversed *)

\* a comes strictly before b
Before(a, b, reverse) == IF reverse THEN a > b ELSE a < b

\* s is a sequence of records with a field k, the sort key's value
RECURSIVE StableSort(_, _)
StableSort(s, reverse) ==
    IF Len(s) <= 1 THEN s
    ELSE LET rest == StableSort(SubSeq(s, 1, Len(s) - 1), reverse)
             x == s[Len(s)]
             n == Cardinality({i \in 1..Len(rest) : ~Before(x.k, rest[i].k, reverse)})
         IN SubSeq(rest, 1, n) \o <<x>> \o SubSeq(rest, n + 1, Len(rest))

----------------------------------------------------------------------------
(* Metric predicates *)

\* the operator chain of _apply_filters and of _generate_daily_picks: an
\* operator that is none of the five is not evaluated
OpFails(op, val, target) ==
    CASE op = ">"  -> ~(val > target)
      [] op = "<"  -> ~(val < target)
      [] op = ">=" -> ~(val >= target)
      [] op = "<=" -> ~(val <= target)
      [] op = "==" -> ~(val = target)
      [] OTHER     -> FALSE

\* one predicate f on a metrics dict: a missing or None metric fails
FilterPasses(metrics, f) ==
    LET val == Get(metrics, f.metric)
    IN  IF val = None THEN FALSE ELSE ~OpFails(f.operator, val[1], f.value)

\* _apply_filters(metrics, filters)
ApplyFilters(metrics, filters) ==
    \A i \in 1..Len(filters) : FilterPasses(metrics, filters[i])

----------------------------------------------------------------------------
(* _generate_daily_picks.  all_results is the results map as the sequence  *)
(* of its keys in insertion order; dir is the companies table and mets the *)
(* metrics dict of each ticker.                                            *)

\* the metric-level filters of one preset screen (the loop with passes/break)
PassesPresetFilters(metrics, filters) ==
    \A i \in 1..Len(filters) :
        LET val == Get(metrics, filters[i].metric)
        IN  IF val = None THEN FALSE
            ELSE ~OpFails(filters[i].operator, val[1], filters[i].value)

\* whether the result of ticker t becomes a candidate of the screen cfg
IsCandidate(t, cfg, dir, mets) ==
    /\ ~dir[t].is_etf
    /\ dir[t].sector \notin cfg.exclude_sectors
    /\ ~(cfg.min_market_cap # 0 /\ OrZero(dir[t].market_cap) < cfg.min_market_cap)
    /\ PassesPresetFilters(mets[t], cfg.filters)

\* sort_fn(item)
sort_fn(t, sort_key, dir, mets) ==
    LET val == Get(mets[t], sort_key)
    IN  IF val # None THEN val[1] ELSE OrZero(dir[t].market_cap)

\* mutant: the candidates are cut to the limit before they are sorted
ScreenPicks_CutFirst(run_id, cfg, all_results, dir, mets) ==
    LET cand   == SelectSeq(all_results, LAMBDA t : IsCandidate(t, cfg, dir, mets))
        first  == SubSeq(cand, 1, Min(Len(cand), cfg.limit))
        keyed  == [i \in 1..Len(first) |->
                      [ticker |-> first[i], k |-> sort_fn(first[i], cfg.sort_by, dir, mets)]]
        sorted == StableSort(keyed, cfg.sort_order = "desc")
    IN  [i \in 1..Len(sorted) |->
            [run_id |-> run_id, ticker |-> sorted[i].ticker, screen_name |-> cfg.id,
             rank |-> i, metrics |-> mets[sorted[i].ticker]]]

\* the DailyPick rows one screen stores: candidates in the map's order,
\* sorted, cut to the limit, ranked from 1
ScreenPicks(run_id, cfg, all_results, dir, mets) ==
    LET cand   == SelectSeq(all_results, LAMBDA t : IsCandidate(t, cfg, dir, mets))
        keyed  == [i \in 1..Len(cand) |->
                      [ticker |-> cand[i], k |-> sort_fn(cand[i], cfg.sort_by, dir, mets)]]
        sorted == StableSort(keyed, cfg.sort_order = "desc")
        top    == SubSeq(sorted, 1, Min(Len(sorted), cfg.limit))
    IN  [i \in 1..Len(top) |->
            [run_id |-> run_id, ticker |-> top[i].ticker, screen_name |-> cfg.id,
             rank |-> i, metrics |-> mets[top[i].ticker]]]

\* the rows added by the first n screens of PRESET_SCREENS
RECURSIVE PicksOfScreens(_, _, _, _, _)
PicksOfScreens(n, run_id, all_results, dir, mets) ==
    IF n = 0 THEN <<>>
    ELSE PicksOfScreens(n - 1, run_id, all_results, dir, mets) \o
         (IF PRESET_SCREENS[n].id = "red_flag_watch" THEN <<>>
          ELSE ScreenPicks(run_id, PRESET_SCREENS[n], all_results, dir, mets))

\* every row _generate_daily_picks adds for a run
GenerateDailyPicks(run_id, all_results, dir, mets) ==
    PicksOfScreens(Len(PRESET_SCREENS), run_id, all_results, dir, mets)

----------------------------------------------------------------------------
(* run_screen: the cached path and the live path.  A result is a sequence  *)
(* of [ticker, rank].                                                      *)

\* get_sort_value(r): metrics.get(sort_key) or market_cap, None -> 0
get_sort_value(metrics, market_cap, sort_key) ==
    LET m == Get(metrics, sort_key)
        val == IF Truthy(m) THEN m ELSE market_cap
    IN  IF val # None THEN val[1] ELSE 0

\* the database-level filters as _run_screen_from_cache applies them to a row
CachePassesCompany(c, req) ==
    /\ ~(req.exclude_sectors # {} /\ c.sector \in req.exclude_sectors)
    /\ ~(Truthy(req.min_market_cap) /\ OrZero(c.market_cap) < req.min_market_cap[1])
    /\ ~(Truthy(req.max_market_cap) /\ OrZero(c.market_cap) > req.max_market_cap[1])

\* the loop over the run's picks: rows[1..n] scanned, result is the accepted
\* rows in order; a ticker already accepted is skipped (seen_tickers)
RECURSIVE CacheAccepted(_, _, _, _)
CacheAccepted(rows, n, req, dir) ==
    IF n = 0 THEN <<>>
    ELSE LET acc  == CacheAccepted(rows, n - 1, req, dir)
             p    == rows[n]
             seen == {acc[i].ticker : i \in 1..Len(acc)}
         IN  IF /\ p.ticker \notin seen
                /\ CachePassesCompany(dir[p.ticker], req)
                /\ ApplyFilters(p.metrics, req.filters)
             THEN Append(acc, p)
             ELSE acc

\* sort, rank, cut to request.limit (shared tail of both paths)
RankAndCut(accepted, req, dir) ==
    LET keyed  == [i \in 1..Len(accepted) |->
                      [ticker |-> accepted[i].ticker,
                       k |-> get_sort_value(accepted[i].metrics,
                                            dir[accepted[i].ticker].market_cap,
                                            req.sort_by)]]
        sorted == StableSort(keyed, req.sort_order = "desc")
        ranked == [i \in 1..Len(sorted) |-> [ticker |-> sorted[i].ticker, rank |-> i]]
    IN  SubSeq(ranked, 1, Min(Len(ranked), req.limit))

\* _run_screen_from_cache(db, run, request); None when the run has no picks
RunScreenFromCache(run_id, req, table, dir) ==
    LET rows == SelectSeq(table, LAMBDA p : p.run_id = run_id)
    IN  IF rows = <<>> THEN None
        ELSE Some(RankAndCut(CacheAccepted(rows, Len(rows), req, dir), req, dir))

\* the live path's company query: active, not excluded, within the caps,
\* ORDER BY market_cap DESC (NULLs first), LIMIT 200, then [:50].
\* dbOrder is the order the database yields equal market caps in.
LiveCompanies(req, dir, dbOrder) ==
    LET sel == SelectSeq(dbOrder, LAMBDA t :
                   /\ dir[t].is_active
                   /\ ~(req.exclude_sectors # {} /\ dir[t].sector \in req.exclude_sectors)
                   /\ ~(Truthy(req.min_market_cap) /\
                        ~(dir[t].market_cap # None /\
                          dir[t].market_cap[1] >= req.min_market_cap[1]))
                   /\ ~(Truthy(req.max_market_cap) /\
                        ~(dir[t].market_cap # None /\
                          dir[t].market_cap[1] <= req.max_market_cap[1])))
        nulls == SelectSeq(sel, LAMBDA t : dir[t].market_cap = None)
        rest  == SelectSeq(sel, LAMBDA t : dir[t].market_cap # None)
        keyed == [i \in 1..Len(rest) |-> [ticker |-> rest[i], k |-> dir[rest[i]].market_cap[1]]]
        desc  == StableSort(keyed, TRUE)
        all   == nulls \o [i \in 1..Len(desc) |-> desc[i].ticker]
    IN  SubSeq(all, 1, Min(Len(all), Min(LiveQueryCap, LiveCap)))

\* the live path of run_screen: metrics computed per company, filtered,
\* sorted, ranked, cut
RunScreenLive(req, dir, mets, dbOrder) ==
    LET comps == LiveCompanies(req, dir, dbOrder)
        pass  == SelectSeq(comps, LAMBDA t : ApplyFilters(mets[t], req.filters))
        acc   == [i \in 1..Len(pass) |-> [ticker |-> pass[i], metrics |-> mets[pass[i]]]]
    IN  RankAndCut(acc, req, dir)

----------------------------------------------------------------------------
(* Input data *)

\* metrics dicts as _flatten_metrics builds them
MetricsGood(am) ==
    [f_score |-> Some(8), acquirers_multiple |-> Some(am), pe_ratio |-> Some(10),
     roe |-> Some(20), z_score |-> Some(350), m_score |-> Some(-250),
     m_score_flag |-> Some(0)]
\* every preset predicate fails (z_score is exactly on the 2.99 boundary)
MetricsWeak ==
    [f_score |-> Some(4), acquirers_multiple |-> Some(9), pe_ratio |-> Some(25),
     roe |-> Some(10), z_score |-> Some(299), m_score |-> Some(-100),
     m_score_flag |-> Some(1)]
\* metrics present with value None (ratios whose formula is undefined)
MetricsNone ==
    [f_score |-> Some(8), acquirers_multiple |-> None, pe_ratio |-> None,
     roe |-> Some(20), z_score |-> Some(350), m_score |-> Some(-250),
     m_score_flag |-> Some(0)]
\* metrics whose keys are absent (formula result falsy, valuation keys not set)
MetricsAbsent ==
    [f_score |-> Some(8), z_score |-> Some(350)]
\* a metric with value 0 (f_score of 0, a zero ratio)
MetricsZero ==
    [f_score |-> Some(0), acquirers_multiple |-> Some(5), pe_ratio |-> Some(10),
     roe |-> Some(20), z_score |-> Some(350), m_score |-> Some(-250),
     m_score_flag |-> Some(0)]

Company(sector, cap, etf, active) ==
    [sector |-> sector, market_cap |-> cap, is_etf |-> etf, is_active |-> active]

\* the (Company row, metrics) pairs the data is drawn from
Profiles ==
    { [c |-> Company("Technology", Some(3), FALSE, TRUE),         m |-> MetricsGood(5)],
      [c |-> Company("Technology", Some(3), FALSE, TRUE),         m |-> MetricsGood(6)],
      [c |-> Company("Technology", Some(4), FALSE, TRUE),         m |-> MetricsZero],
      [c |-> Company("Financial Services", Some(3), FALSE, TRUE), m |-> MetricsWeak],
      [c |-> Company("Technology", Some(1), FALSE, TRUE),         m |-> MetricsNone],
      [c |-> Company("Technology", Some(3), FALSE, TRUE),         m |-> MetricsAbsent],
      [c |-> Company("Technology", None, FALSE, TRUE),            m |-> MetricsGood(5)],
      [c |-> Company("Technology", Some(3), TRUE, TRUE),          m |-> [pe_ratio |-> Some(10)]] }

\* metrics with the two Magic Formula components, in percent
MetricsMagic(ey, roc) ==
    [f_score |-> Some(4), acquirers_multiple |-> Some(9), pe_ratio |-> Some(25),
     roe |-> Some(10), z_score |-> Some(299), m_score |-> Some(-100),
     m_score_flag |-> Some(1), earnings_yield |-> Some(ey),
     return_on_capital |-> Some(roc)]

\* three companies eligible for the Magic Formula screen: the smallest has
\* the lowest earnings yield and return on capital
MagicProfiles ==
    { [c |-> Company("Technology", Some(2), FALSE, TRUE), m |-> MetricsMagic(5, 5)],
      [c |-> Company("Technology", Some(3), FALSE, TRUE), m |-> MetricsMagic(20, 30)],
      [c |-> Company("Technology", Some(4), FALSE, TRUE), m |-> MetricsMagic(10, 10)] }

\* passes magic_formula and safe_stocks only
MetricsSafe ==
    [f_score |-> Some(8), z_score |-> Some(350), m_score_flag |-> Some(0)]

\* the data of the orchestrator's behaviours: one active company, which two
\* preset screens pick (magic_formula and safe_stocks), and inactive ones
BaseCompanies ==
    [t \in Tickers |->
        IF t = "AAA" THEN Company("Technology", Some(3), FALSE, TRUE)
        ELSE Company("Technology", Some(3), FALSE, FALSE)]
BaseFetched ==
    [t \in Tickers |-> IF t = "AAA" THEN MetricsSafe ELSE MetricsWeak]

ActiveTickers(dir) == {t \in Tickers : dir[t].is_active}

NoRequest ==
    [filters |-> <<>>, sort_by |-> "market_cap", sort_order |-> "desc", limit |-> 50,
     exclude_sectors |-> {}, min_market_cap |-> None, max_market_cap |-> None]

----------------------------------------------------------------------------
(* run_daily_analysis *)

\* the other components at rest
IdleEngine ==
    /\ snap = <<>>
    /\ formulas = <<>>
    /\ ratios = <<>>

IdleBrief ==
    /\ brief = <<>>
    /\ todaysPicks = <<>>

\* no company is singled out to fail
NoFault == [company |-> 0, how |-> "none"]

IdleFetch ==
    /\ universe = 0
    /\ task = <<>>
    /\ semaphore = 0
    /\ loop = [pc |-> "returned", i |-> 0]
    /\ results = {}
    /\ pauses = {}
    /\ processed = <<>>
    /\ fault = NoFault

Statements == 1..3

IdleRetry ==
    /\ stmt = 0
    /\ attempt = 0
    /\ answers = [s \in Statements |-> <<>>]
    /\ sleeps = [s \in Statements |-> <<>>]
    /\ frames = <<>>
    /\ built = <<>>

IdlePlan ==
    /\ closes = <<>>
    /\ indicators = <<>>
    /\ ticker_metrics = <<>>
    /\ plans = <<>>

IdleLate == IdleRetry /\ IdlePlan

IdleOther ==
    /\ screenOut = <<>>
    /\ IdleEngine
    /\ IdleBrief
    /\ IdleFetch
    /\ IdleLate

IdleInv ==
    [pc |-> "idle", force |-> FALSE, started |-> FALSE, run_id |-> 0, run_date |-> 0,
     all_results |-> <<>>, stocks_analyzed |-> 0, picks_count |-> 0,
     unique_tickers |-> {}, strat_date |-> 0, ran |-> {}]

\* the locals of an invocation that has returned or raised: only what the
\* properties read is kept
Returned(l) ==
    [IdleInv EXCEPT !.pc = "done", !.force = l.force, !.started = l.started,
                    !.run_id = l.run_id, !.run_date = l.run_date, !.ran = l.ran]

InFlight(i) == inv[i].pc \notin {"idle", "done"}

\* the lengths of the exception messages
ErrLens == {1} \cup (ErrMsgLimit .. ErrMsgLimit + MaxErrExtra)

\* mutant: the completed-run check finds nothing
ExistingCompleted_Never(d) == FALSE

\* mutant: the check also finds a run that is still running
ExistingCompleted_OrRunning(d) ==
    \E r \in runs : r.run_date = d /\ r.status \in {"completed", "running"}

\* the query of lines 31-38: a completed run of date d
ExistingCompleted(d) == \E r \in runs : r.run_date = d /\ r.status = "completed"

\* mutant: the picks of the previous runs are not deleted
PicksAfterDelete_Kept(d) == picks

\* the daily_picks rows left by the delete of lines 52-54
PicksAfterDelete(d) ==
    LET old_run_ids == {r.id : r \in {o \in runs : o.run_date = d}}
    IN  SelectSeq(picks, LAMBDA p : p.run_id \notin old_run_ids)

\* mutant: the previous runs of the date are not deleted
RunsAfterDelete_Kept(d) == runs

\* the daily_analysis_runs rows left by the delete of lines 56-58
RunsAfterDelete(d) == {r \in runs : r.run_date # d}

\* mutant: the row is created as completed
NewRun_Completed(d) ==
    [id |-> nextRunId, run_date |-> d, status |-> "completed", error_message |-> None,
     stocks_analyzed |-> 0, stocks_passed |-> 0]

\* the row of lines 62-66
NewRun(d) ==
    [id |-> nextRunId, run_date |-> d, status |-> "running", error_message |-> None,
     stocks_analyzed |-> 0, stocks_passed |-> 0]

\* mutant: the message is stored whole
Truncate_Whole(len) == len

\* str(e)[:1000]
Truncate(len) == Min(len, ErrMsgLimit)

RunExists(id) == \E r \in runs : r.id = id

\* the UPDATE of lines 142-147 on the run row with the given id
MarkCompleted(id, analyzed, passed) ==
    {IF r.id = id
     THEN [r EXCEPT !.status = "completed", !.stocks_analyzed = analyzed,
                    !.stocks_passed = passed]
     ELSE r : r \in runs}

\* the UPDATE of lines 157-160 on the run row with the given id
MarkFailed(id, len) ==
    {IF r.id = id
     THEN [r EXCEPT !.status = "failed", !.error_message = Some(Truncate(len))]
     ELSE r : r \in runs}

\* the daily_picks table after the session's pending work on the picks of
\* this run is flushed: its rows deleted (lines 269-271), rows added
FlushPicks(id, rows) == SelectSeq(picks, LAMBDA p : p.run_id # id) \o rows

\* the slot a new invocation takes: which one is free does not matter to the
\* program, so the first free one in a fixed order is taken
FreeSlot ==
    IF inv["s1"].pc \in {"idle", "done"} THEN "s1" ELSE "s2"

\* invocation: lines 25-69.  No await lies between the check, the deletes
\* and the insert, so no other invocation runs in between.
Trigger(i, force) ==
    /\ inv[i].pc \in {"idle", "done"}
    /\ i = FreeSlot
    /\ triggers < MaxTriggers
    /\ triggers' = triggers + 1
    /\ overlapped' = (overlapped \/ \E j \in Slots \ {i} : InFlight(j))
    /\ IF ~force /\ ExistingCompleted(today)
       THEN /\ inv' = [inv EXCEPT ![i] =
                          [IdleInv EXCEPT !.pc = "done", !.force = force,
                                          !.run_date = today]]
            /\ UNCHANGED <<runs, picks, nextRunId>>
       ELSE /\ picks' = PicksAfterDelete(today)
            /\ runs' = RunsAfterDelete(today) \cup {NewRun(today)}
            /\ nextRunId' = nextRunId + 1
            /\ inv' = [inv EXCEPT ![i] =
                          [IdleInv EXCEPT !.pc = "stage1", !.force = force,
                                          !.started = TRUE, !.run_id = nextRunId,
                                          !.run_date = today]]
    /\ UNCHANGED <<companies, fetched, today, strategies, request, cachedOut,
                   liveOut, order1, order2, out1, out2, otherVars>>

\* the except clause of lines 154-163 with the session's pending pick rows:
\* the commit stores them with the status, or fails when the run row is gone
\* (the inner except swallows that)
Handler(i, len, pending) ==
    IF RunExists(inv[i].run_id)
    THEN /\ runs' = MarkFailed(inv[i].run_id, len)
         /\ picks' = pending
    ELSE UNCHANGED <<runs, picks>>

NextPc(pc) ==
    CASE pc = "stage1" -> "stage2"
      [] pc = "stage2" -> "stage3"
      [] pc = "stage6" -> "stage7"
      [] pc = "stage7" -> "stage8"
      [] pc = "stage8" -> "finish"

StageNo(pc) ==
    CASE pc = "stage1" -> 1 [] pc = "stage2" -> 2 [] pc = "stage6" -> 6
      [] pc = "stage7" -> 7 [] pc = "stage8" -> 8

\* steps 1, 2, 6, 7, 8 (lines 74-89, 110-138): each inside its own
\* try/except, whose except clause only prints; they write none of the
\* three tables modelled here, so the step is the same whether the stage
\* returns (ok) or raises
GuardedStage(i, ok) ==
    /\ inv[i].pc \in {"stage1", "stage2", "stage6", "stage7", "stage8"}
    /\ inv' = [inv EXCEPT ![i].pc = NextPc(inv[i].pc),
                          ![i].ran = @ \cup {StageNo(inv[i].pc)}]
    /\ UNCHANGED <<companies, fetched, today, runs, picks, strategies, nextRunId,
                   triggers, overlapped, request, cachedOut, liveOut, order1,
                   order2, out1, out2, otherVars>>

\* step 3 (lines 91-96), not inside a try: the results map holds the
\* companies whose fetch succeeded, in the order the fetches completed
Stage3(i) ==
    /\ inv[i].pc = "stage3"
    /\ \/ \E res \in Orders(ActiveTickers(companies)) :
            /\ inv' = [inv EXCEPT ![i].pc = "stage4", ![i].ran = @ \cup {3},
                                  ![i].all_results = res]
            /\ UNCHANGED <<runs, picks>>
       \/ \E len \in ErrLens :
            /\ Handler(i, len, picks)
            /\ inv' = [inv EXCEPT ![i] = Returned([inv[i] EXCEPT !.ran = @ \cup {3}])]
    /\ UNCHANGED <<companies, fetched, today, strategies, nextRunId, triggers,
                   overlapped, request, cachedOut, liveOut, order1, order2, out1, out2,
                   otherVars>>

\* step 4 (lines 98-100), not inside a try.  The commit of line 360 fails
\* on the foreign key when the run row is gone and a row is to be inserted.
Stage4(i) ==
    LET rows == GenerateDailyPicks(inv[i].run_id, inv[i].all_results, companies, fetched)
    IN
    /\ inv[i].pc = "stage4"
    /\ \/ IF RunExists(inv[i].run_id) \/ rows = <<>>
          THEN /\ picks' = FlushPicks(inv[i].run_id, rows)
               /\ inv' = [inv EXCEPT ![i].pc = "stage5", ![i].ran = @ \cup {4},
                                     ![i].all_results = <<>>,
                                     ![i].stocks_analyzed = Len(inv[i].all_results),
                                     ![i].picks_count = Len(rows)]
               /\ UNCHANGED runs
          ELSE /\ inv' = [inv EXCEPT ![i] = Returned([inv[i] EXCEPT !.ran = @ \cup {4}])]
               /\ UNCHANGED <<runs, picks>>
       \/ \E k \in 0..Len(rows), len \in ErrLens :
            \* raised while the (k+1)st row was built: k rows are pending
            /\ Handler(i, len, FlushPicks(inv[i].run_id, SubSeq(rows, 1, k)))
            /\ inv' = [inv EXCEPT ![i] = Returned([inv[i] EXCEPT !.ran = @ \cup {4}])]
    /\ UNCHANGED <<companies, fetched, today, strategies, nextRunId, triggers,
                   overlapped, request, cachedOut, liveOut, order1, order2, out1, out2,
                   otherVars>>

\* step 5, first part (strategy_engine.py lines 23-33): the picks of the
\* run are read and today's date taken, then the price fetches are awaited
Stage5Read(i) ==
    /\ inv[i].pc = "stage5"
    /\ \/ inv' = [inv EXCEPT ![i].pc = "stage5w", ![i].ran = @ \cup {5},
                             ![i].unique_tickers =
                                 {picks[n].ticker : n \in {m \in 1..Len(picks) :
                                      picks[m].run_id = inv[i].run_id}},
                             ![i].strat_date = today]
       \/ inv' = [inv EXCEPT ![i].pc = "stage6", ![i].ran = @ \cup {5}]
    /\ UNCHANGED <<companies, fetched, today, runs, picks, strategies, nextRunId,
                   triggers, overlapped, request, cachedOut, liveOut, order1,
                   order2, out1, out2, otherVars>>

\* the stock_strategies rows left by the delete of strategy_engine.py lines 86-89
StrategiesAfterDelete(d, tickers) ==
    {s \in strategies : ~(s.analysis_date = d /\ s.ticker \in tickers)}

\* step 5, second part (strategy_engine.py lines 83-96): made is the set of
\* tickers whose process_ticker returned strategies.  by is not a column:
\* it records the run whose invocation wrote the row.
Stage5Write(i) ==
    /\ inv[i].pc = "stage5w"
    /\ \/ \E made \in SUBSET inv[i].unique_tickers :
            /\ strategies' =
                  StrategiesAfterDelete(inv[i].strat_date, inv[i].unique_tickers) \cup
                  {[ticker |-> t, analysis_date |-> inv[i].strat_date,
                    by |-> inv[i].run_id] : t \in made}
            /\ inv' = [inv EXCEPT ![i].pc = "stage6", ![i].unique_tickers = {},
                                  ![i].strat_date = 0]
       \/ /\ inv' = [inv EXCEPT ![i].pc = "stage6", ![i].unique_tickers = {},
                                  ![i].strat_date = 0]
          /\ UNCHANGED strategies
    /\ UNCHANGED <<companies, fetched, today, runs, picks, nextRunId, triggers,
                   overlapped, request, cachedOut, liveOut, order1, order2, out1, out2,
                   otherVars>>

\* lines 140-147; the UPDATE matches no row when the run row is gone, the
\* commit raises and the except clause fails the same way
Finish(i) ==
    /\ inv[i].pc = "finish"
    /\ IF RunExists(inv[i].run_id)
       THEN runs' = MarkCompleted(inv[i].run_id, inv[i].stocks_analyzed,
                                  inv[i].picks_count)
       ELSE UNCHANGED runs
    /\ inv' = [inv EXCEPT ![i] = Returned(inv[i])]
    /\ UNCHANGED <<companies, fetched, today, picks, strategies, nextRunId, triggers,
                   overlapped, request, cachedOut, liveOut, order1, order2, out1, out2,
                   otherVars>>

\* midnight passes
Tick ==
    /\ today < MaxDay
    /\ today' = today + 1
    /\ UNCHANGED <<companies, fetched, runs, picks, strategies, nextRunId, inv,
                   triggers, overlapped, request, cachedOut, liveOut, order1,
                   order2, out1, out2, otherVars>>

Init ==
    /\ companies = BaseCompanies
    /\ fetched = BaseFetched
    /\ today = 1
    /\ runs = {}
    /\ picks = <<>>
    /\ strategies = {}
    /\ nextRunId = 1
    /\ inv = [i \in Slots |-> IdleInv]
    /\ triggers = 0
    /\ overlapped = FALSE
    /\ request = NoRequest
    /\ cachedOut = None
    /\ liveOut = None
    /\ order1 = <<>>
    /\ order2 = <<>>
    /\ out1 = None
    /\ out2 = None
    /\ IdleOther

Next ==
    \/ \E i \in Slots, force \in BOOLEAN : Trigger(i, force)
    \/ \E i \in Slots, ok \in BOOLEAN : GuardedStage(i, ok)
    \/ \E i \in Slots : Stage3(i)
    \/ \E i \in Slots : Stage4(i)
    \/ \E i \in Slots : Stage5Read(i)
    \/ \E i \in Slots : Stage5Write(i)
    \/ \E i \in Slots : Finish(i)
    \/ Tick

Spec == Init /\ [][Next]_vars

----------------------------------------------------------------------------
(* The screener next to one daily run: run_screen is called for a request  *)
(* before today's run has completed (live path) and after (cached path),   *)
(* over the same companies table and the same per-company metrics.         *)

\* the companies tables and metrics the data is drawn from
DataChoices ==
    {f \in [Tickers -> Profiles] :
        f["CCC"].m \in {MetricsWeak, MetricsZero}}

\* the three Magic Formula companies, under every assignment of tickers
MagicChoices ==
    {f \in [Tickers -> MagicProfiles] : \A t, u \in Tickers : f[t] = f[u] => t = u}

ReqFilters ==
    { <<>>,
      << Filter("f_score", ">=", 5) >>,
      << [metric |-> "pe_ratio", operator |-> "between", value |-> 15, hi |-> 30] >> }

ReqSorts ==
    { [by |-> "market_cap", order |-> "desc"],
      [by |-> "f_score", order |-> "desc"],
      [by |-> "f_score", order |-> "asc"] }

Requests ==
    { [filters |-> fs, sort_by |-> so.by, sort_order |-> so.order, limit |-> l,
       exclude_sectors |-> ex, min_market_cap |-> mn, max_market_cap |-> None] :
        fs \in ReqFilters, so \in ReqSorts, l \in 1..MaxLimit,
        ex \in {{}, {"Financial Services"}}, mn \in {None, Some(2)} }

\* _get_cached_run: today's completed run
CachedRuns == {r \in runs : r.run_date = today /\ r.status = "completed"}

\* run_screen(request): the cached result when today's run has completed
\* and has picks, else the live path
RunScreen ==
    /\ LET hit == IF CachedRuns = {} THEN None
                  ELSE RunScreenFromCache((CHOOSE r \in CachedRuns : TRUE).id,
                                          request, picks, companies)
       IN  IF hit # None
           THEN /\ cachedOut' = hit
                /\ UNCHANGED liveOut
           ELSE /\ \E dbOrder \in Perms(Tickers) :
                       liveOut' = Some(RunScreenLive(request, companies, fetched, dbOrder))
                /\ UNCHANGED cachedOut
    /\ UNCHANGED <<companies, fetched, today, runs, picks, strategies, nextRunId, inv,
                   triggers, overlapped, request, order1, order2, out1, out2,
                   otherVars>>

\* one invocation of run_daily_analysis in which every stage succeeds and
\* every active company is fetched: its run row and its picks
DailyRun ==
    /\ runs = {}
    /\ \E res \in Perms(ActiveTickers(companies)) :
          LET rows == GenerateDailyPicks(nextRunId, res, companies, fetched)
          IN  /\ picks' = rows
              /\ runs' = {[NewRun(today) EXCEPT !.status = "completed",
                                                !.stocks_analyzed = Len(res),
                                                !.stocks_passed = Len(rows)]}
              /\ order1' = res
    /\ nextRunId' = nextRunId + 1
    /\ UNCHANGED <<companies, fetched, today, strategies, inv, triggers, overlapped,
                   request, cachedOut, liveOut, order2, out1, out2, otherVars>>

InitScreen ==
    /\ \E f \in DataChoices :
          /\ companies = [t \in Tickers |-> f[t].c]
          /\ fetched = [t \in Tickers |-> f[t].m]
    /\ request \in Requests
    /\ today = 1
    /\ runs = {}
    /\ picks = <<>>
    /\ strategies = {}
    /\ nextRunId = 1
    /\ inv = [i \in Slots |-> IdleInv]
    /\ triggers = 0
    /\ overlapped = FALSE
    /\ cachedOut = None
    /\ liveOut = None
    /\ order1 = <<>>
    /\ order2 = <<>>
    /\ out1 = None
    /\ out2 = None
    /\ IdleOther

NextScreen == RunScreen \/ DailyRun

SpecScreen == InitScreen /\ [][NextScreen]_vars

----------------------------------------------------------------------------
(* _generate_daily_picks evaluated twice on the same results, handed over  *)
(* in two insertion orders (the order the concurrent fetches completed in) *)

Evaluate1 ==
    /\ out1 = None
    /\ out1' = Some(GenerateDailyPicks(1, order1, companies, fetched))
    /\ UNCHANGED <<companies, fetched, today, runs, picks, strategies, nextRunId, inv,
                   triggers, overlapped, request, cachedOut, liveOut, order1, order2,
                   out2, otherVars>>

Evaluate2 ==
    /\ out2 = None
    /\ out2' = Some(GenerateDailyPicks(1, order2, companies, fetched))
    /\ UNCHANGED <<companies, fetched, today, runs, picks, strategies, nextRunId, inv,
                   triggers, overlapped, request, cachedOut, liveOut, order1, order2,
                   out1, otherVars>>

InitPicks ==
    /\ \E f \in DataChoices \cup MagicChoices :
          /\ companies = [t \in Tickers |-> f[t].c]
          /\ fetched = [t \in Tickers |-> f[t].m]
    /\ order1 \in Orders(Tickers)
    /\ order2 \in Perms(SeqToSet(order1))
    /\ request = NoRequest
    /\ today = 1
    /\ runs = {}
    /\ picks = <<>>
    /\ strategies = {}
    /\ nextRunId = 1
    /\ inv = [i \in Slots |-> IdleInv]
    /\ triggers = 0
    /\ overlapped = FALSE
    /\ cachedOut = None
    /\ liveOut = None
    /\ out1 = None
    /\ out2 = None
    /\ IdleOther

\* the loop body of _generate_daily_picks for one preset screen whose
\* "limit" is l: the rows it stores for the results in order1
EvaluateScreen ==
    /\ screenOut = None
    /\ \E n \in 1..Len(PRESET_SCREENS), l \in (1..MaxLimit) \cup {PresetLimit} :
          /\ PRESET_SCREENS[n].id # "red_flag_watch"
          /\ LET cfg == [PRESET_SCREENS[n] EXCEPT !.limit = l]
             IN  screenOut' = Some([cfg |-> cfg,
                                    rows |-> ScreenPicks(1, cfg, order1, companies, fetched)])
    /\ UNCHANGED <<dailyVars, engineVars, briefVars, fetchVars, lateVars>>

NextPicks == Evaluate1 \/ Evaluate2 \/ EvaluateScreen

SpecPicks == InitPicks /\ [][NextPicks]_vars

----------------------------------------------------------------------------
(* The formula engine (formulas.py).  A FundamentalData snapshot is a      *)
(* function from field names to optional integers.  A float is the exact   *)
(* rational [n, d] with d > 0 that real arithmetic gives; round(x, k) is   *)
(* the integer number of 10^-k units nearest to x.                         *)

PriorFields ==
    {"revenue_prior", "gross_profit_prior", "net_income_prior", "total_assets_prior",
     "current_assets_prior", "current_liabilities_prior", "long_term_debt_prior",
     "shares_outstanding_prior", "net_receivables_prior", "sga_expense_prior",
     "depreciation_prior", "property_plant_equipment_prior"}

CurrentFields ==
    {"revenue", "gross_profit", "ebit", "ebitda", "net_income", "eps", "sga_expense",
     "depreciation", "total_assets", "current_assets", "total_liabilities",
     "current_liabilities", "total_debt", "long_term_debt", "shareholders_equity",
     "retained_earnings", "cash_and_equivalents", "net_receivables",
     "property_plant_equipment", "intangible_assets", "operating_cash_flow",
     "shares_outstanding", "market_cap", "stock_price"}

Fields == CurrentFields \cup PriorFields

\* FundamentalData(): every field None
FundamentalData == [f \in Fields |-> None]

Rat(n, d) == IF d > 0 THEN [n |-> n, d |-> d] ELSE [n |-> -n, d |-> -d]
\* an optional number as an optional rational
RatOf(x) == IF x = None THEN None ELSE Some(Rat(x[1], 1))
QGt(a, b) == a.n * b.d > b.n * a.d
QLt(a, b) == a.n * b.d < b.n * a.d

\* round(n / d, 0), d > 0: the nearest integer, a tie to the even one
Round(n, d) ==
    LET f == n \div d
        r == n % d
    IN  IF 2 * r < d THEN f
        ELSE IF 2 * r > d THEN f + 1
        ELSE IF f % 2 = 0 THEN f ELSE f + 1

\* safe_divide(numerator, denominator) on optional rationals
safe_divide(numerator, denominator) ==
    IF numerator = None \/ denominator = None THEN None
    ELSE IF denominator[1].n = 0 THEN None
    ELSE Some(Rat(numerator[1].n * denominator[1].d, numerator[1].d * denominator[1].n))

\* MagicFormula.calculate_earnings_yield
calculate_earnings_yield(data) ==
    IF data.ebit = None \/ data.market_cap = None THEN None
    ELSE LET enterprise_value == data.market_cap[1] + OrZero(data.total_debt)
                                   - OrZero(data.cash_and_equivalents)
         IN  IF enterprise_value <= 0 THEN None
             ELSE Some(Rat(data.ebit[1], enterprise_value))

\* MagicFormula.calculate_return_on_capital
calculate_return_on_capital(data) ==
    IF data.ebit = None THEN None
    ELSE LET net_working_capital == OrZero(data.current_assets)
                                      - OrZero(data.current_liabilities)
             net_fixed_assets == OrZero(data.total_assets) - OrZero(data.current_assets)
                                   - OrZero(data.intangible_assets)
             invested_capital == net_working_capital + net_fixed_assets
         IN  IF invested_capital <= 0 THEN None
             ELSE Some(Rat(data.ebit[1], invested_capital))

\* AcquirersMultiple.calculate
AcquirersMultiple(data) ==
    IF data.ebit = None \/ data.market_cap = None THEN None
    ELSE IF data.ebit[1] <= 0 THEN None
    ELSE LET enterprise_value == data.market_cap[1] + OrZero(data.total_debt)
                                   - OrZero(data.cash_and_equivalents)
         IN  IF enterprise_value <= 0 THEN None
             ELSE Some(Rat(enterprise_value, data.ebit[1]))

\* mutant: a comparison with a missing side scores 1
AbsentComparison_One(current, prior) == 1

\* the score of a test whose current or prior side is missing (the else
\* branches of PiotroskiFScore.calculate)
AbsentComparison(current, prior) == 0

\* 1 if current and prior are both defined and current > prior (cmp ">")
\* or current < prior (cmp "<")
Improving(current, prior, cmp) ==
    IF current # None /\ prior # None
    THEN (IF (IF cmp = ">" THEN QGt(current[1], prior[1])
              ELSE QLt(current[1], prior[1])) THEN 1 ELSE 0)
    ELSE AbsentComparison(current, prior)

\* PiotroskiFScore.calculate: the nine scores
PiotroskiBreakdown(data) ==
    LET roa == safe_divide(RatOf(data.net_income), RatOf(data.total_assets))
        roa_prior == safe_divide(RatOf(data.net_income_prior), RatOf(data.total_assets_prior))
        leverage == safe_divide(RatOf(data.long_term_debt), RatOf(data.total_assets))
        leverage_prior == safe_divide(RatOf(data.long_term_debt_prior),
                                      RatOf(data.total_assets_prior))
        current_ratio == safe_divide(RatOf(data.current_assets),
                                     RatOf(data.current_liabilities))
        current_ratio_prior == safe_divide(RatOf(data.current_assets_prior),
                                           RatOf(data.current_liabilities_prior))
        gross_margin == safe_divide(RatOf(data.gross_profit), RatOf(data.revenue))
        gross_margin_prior == safe_divide(RatOf(data.gross_profit_prior),
                                          RatOf(data.revenue_prior))
        asset_turnover == safe_divide(RatOf(data.revenue), RatOf(data.total_assets))
        asset_turnover_prior == safe_divide(RatOf(data.revenue_prior),
                                            RatOf(data.total_assets_prior))
    IN  [roa_positive |-> IF roa # None /\ roa[1].n > 0 THEN 1 ELSE 0,
         cfo_positive |-> IF data.operating_cash_flow # None
                             /\ data.operating_cash_flow[1] > 0 THEN 1 ELSE 0,
         roa_improving |-> Improving(roa, roa_prior, ">"),
         accruals_quality |->
            IF data.operating_cash_flow # None /\ data.net_income # None
            THEN (IF data.operating_cash_flow[1] > data.net_income[1] THEN 1 ELSE 0)
            ELSE 0,
         leverage_decreasing |-> Improving(leverage, leverage_prior, "<"),
         liquidity_improving |-> Improving(current_ratio, current_ratio_prior, ">"),
         no_dilution |->
            IF data.shares_outstanding # None /\ data.shares_outstanding_prior # None
            THEN (IF data.shares_outstanding[1] <= data.shares_outstanding_prior[1]
                  THEN 1 ELSE 0)
            ELSE AbsentComparison(data.shares_outstanding, data.shares_outstanding_prior),
         gross_margin_improving |-> Improving(gross_margin, gross_margin_prior, ">"),
         asset_turnover_improving |-> Improving(asset_turnover, asset_turnover_prior, ">")]

\* sum(scores.values())
RECURSIVE SumValues(_, _)
SumValues(scores, keys) ==
    IF keys = {} THEN 0
    ELSE LET k == CHOOSE x \in keys : TRUE
         IN  scores[k] + SumValues(scores, keys \ {k})

\* PiotroskiFScore.calculate
PiotroskiFScore(data) ==
    LET scores == PiotroskiBreakdown(data)
        total  == SumValues(scores, DOMAIN scores)
    IN  [f_score |-> total, breakdown |-> scores,
         interpretation |-> IF total >= 8 THEN "Strong"
                            ELSE IF total >= 5 THEN "Moderate" ELSE "Weak"]

\* AltmanZScore.calculate: None, or the z_score in hundredths (rounded to
\* two decimals) with the interpretation of the unrounded value
AltmanZScore(data) ==
    IF data.total_assets = None THEN None
    ELSE IF data.total_assets[1] <= 0 THEN None
    ELSE LET ta == data.total_assets[1]
             working_capital == OrZero(data.current_assets) - OrZero(data.current_liabilities)
             \* d is 0 unless total_liabilities > 0 and market_cap is given
             hasD == /\ data.total_liabilities # None
                     /\ data.total_liabilities[1] > 0
                     /\ data.market_cap # None
             tl == IF hasD THEN data.total_liabilities[1] ELSE 1
             mc == IF hasD THEN data.market_cap[1] ELSE 0
             \* 10 * z = (12 wc + 14 re + 33 ebit + 10 revenue) / ta + 6 mc / tl
             overTa == 12 * working_capital + 14 * OrZero(data.retained_earnings)
                         + 33 * OrZero(data.ebit) + 10 * OrZero(data.revenue)
             z_score == Rat(overTa * tl + 6 * mc * ta, 10 * ta * tl)
         IN  Some([z_score |-> Round(100 * z_score.n, z_score.d),
                   interpretation |->
                      IF 100 * z_score.n > 299 * z_score.d THEN "Safe"
                      ELSE IF 100 * z_score.n > 181 * z_score.d THEN "Grey Zone"
                      ELSE "Distress"])

\* the guard of BeneishMScore.calculate (lines 350-353) lets the data pass
BeneishApplies(data) ==
    /\ data.revenue # None /\ data.revenue_prior # None
    /\ data.revenue[1] > 0 /\ data.revenue_prior[1] > 0

\* BeneishMScore.calculate raises TypeError: None + number in the argument
\* of safe_divide at line 388 or 389
BeneishRaises(data) ==
    /\ BeneishApplies(data)
    /\ \/ Truthy(data.property_plant_equipment) /\ data.depreciation = None
       \/ Truthy(data.property_plant_equipment_prior) /\ data.depreciation_prior = None

\* an index of the M-Score in thousandths: x or 1.0
IndexOr1(x) == IF x # None /\ x[1].n # 0 THEN Round(1000 * x[1].n, x[1].d) ELSE 1000

\* the six ratio-of-ratio indices of BeneishMScore.calculate before "or 1.0"
\* is applied, each an optional rational (None: safe_divide had no value)
BeneishRatios(data) ==
    LET rev == RatOf(data.revenue)
        rev_prior == RatOf(data.revenue_prior)
        ppe == OrZero(data.property_plant_equipment)
        ppe_prior == OrZero(data.property_plant_equipment_prior)
        ta == IF Truthy(data.total_assets) THEN data.total_assets[1] ELSE 1
        ta_prior == IF Truthy(data.total_assets_prior)
                    THEN data.total_assets_prior[1] ELSE 1
        aq_current == IF ta > 0
                      THEN Rat(ta - (OrZero(data.current_assets) + ppe), ta)
                      ELSE Rat(0, 1)
        aq_prior == IF ta_prior > 0
                    THEN Rat(ta_prior - (OrZero(data.current_assets_prior) + ppe_prior),
                             ta_prior)
                    ELSE Rat(0, 1)
        depr_rate == IF ppe # 0
                     THEN safe_divide(RatOf(data.depreciation),
                                      Some(Rat(data.depreciation[1] + ppe, 1)))
                     ELSE None
        depr_rate_prior == IF ppe_prior # 0
                           THEN safe_divide(RatOf(data.depreciation_prior),
                                            Some(Rat(data.depreciation_prior[1]
                                                     + ppe_prior, 1)))
                           ELSE None
        leverage == safe_divide(
                       Some(Rat(OrZero(data.long_term_debt)
                                + OrZero(data.current_liabilities), 1)),
                       Some(Rat(ta, 1)))
        leverage_prior == safe_divide(
                       Some(Rat(OrZero(data.long_term_debt_prior)
                                + OrZero(data.current_liabilities_prior), 1)),
                       Some(Rat(ta_prior, 1)))
    IN  [DSRI |-> safe_divide(safe_divide(RatOf(data.net_receivables), rev),
                              safe_divide(RatOf(data.net_receivables_prior), rev_prior)),
         GMI |-> safe_divide(safe_divide(RatOf(data.gross_profit_prior), rev_prior),
                             safe_divide(RatOf(data.gross_profit), rev)),
         AQI |-> safe_divide(Some(aq_current), Some(aq_prior)),
         DEPI |-> safe_divide(depr_rate_prior, depr_rate),
         SGAI |-> safe_divide(safe_divide(RatOf(data.sga_expense), rev),
                              safe_divide(RatOf(data.sga_expense_prior), rev_prior)),
         LVGI |-> safe_divide(leverage, leverage_prior)]

\* BeneishMScore.calculate where it does not raise: None, or the m_score in
\* hundredths, the six ratio-of-ratio components and is_red_flag.  The eight
\* indices are carried in thousandths.
BeneishMScore(data) ==
    IF ~BeneishApplies(data) THEN None
    ELSE LET ratio == BeneishRatios(data)
             ta == IF Truthy(data.total_assets) THEN data.total_assets[1] ELSE 1
             dsri == IndexOr1(ratio.DSRI)
             gmi == IndexOr1(ratio.GMI)
             aqi == IndexOr1(ratio.AQI)
             sgi == Round(1000 * data.revenue[1], data.revenue_prior[1])
             depi == IndexOr1(ratio.DEPI)
             sgai == IndexOr1(ratio.SGAI)
             tata == IF ta > 0
                     THEN Round(1000 * (OrZero(data.net_income)
                                        - OrZero(data.operating_cash_flow)), ta)
                     ELSE 0
             lvgi == IndexOr1(ratio.LVGI)
             \* the m_score in millionths
             m_score == -4840000 + 920 * dsri + 528 * gmi + 404 * aqi + 892 * sgi
                            + 115 * depi - 172 * sgai + 4679 * tata - 327 * lvgi
         IN  Some([m_score |-> Round(m_score, 10000),
                   components |-> [DSRI |-> dsri, GMI |-> gmi, AQI |-> aqi,
                                   DEPI |-> depi, SGAI |-> sgai, LVGI |-> lvgi],
                   is_red_flag |-> IF m_score > -1780000 THEN 1 ELSE 0])

\* SloanAccrualRatio.calculate: None, or accrual_ratio_pct in hundredths of
\* a percent with the quality tier of the unrounded ratio
SloanAccrualRatio(data) ==
    IF data.net_income = None \/ data.operating_cash_flow = None THEN None
    ELSE LET ta_current == OrZero(data.total_assets)
             ta_prior == IF Truthy(data.total_assets_prior)
                         THEN data.total_assets_prior[1] ELSE ta_current
             \* avg_total_assets = (ta_current + ta_prior) / 2
             twice_avg == ta_current + ta_prior
             accruals == data.net_income[1] - data.operating_cash_flow[1]
         IN  IF twice_avg <= 0 THEN None
             ELSE Some([accrual_ratio_pct |-> Round(10000 * 2 * accruals, twice_avg),
                        quality |-> IF 10 * 2 * accruals < -twice_avg THEN "High"
                                    ELSE IF 10 * 2 * accruals > twice_avg THEN "Low"
                                    ELSE "Normal",
                        is_red_flag |-> IF 10 * 2 * accruals > twice_avg THEN 1 ELSE 0])

\* FormulaEngine.calculate_all: raised, or the results dict
calculate_all(data) ==
    IF BeneishRaises(data) THEN [raised |-> TRUE, results |-> None]
    ELSE [raised |-> FALSE,
          results |-> Some([magic_formula |->
                               [earnings_yield |-> calculate_earnings_yield(data),
                                return_on_capital |-> calculate_return_on_capital(data)],
                            acquirers_multiple |-> AcquirersMultiple(data),
                            piotroski |-> PiotroskiFScore(data),
                            altman_z |-> AltmanZScore(data),
                            beneish_m |-> BeneishMScore(data),
                            sloan_accrual |-> SloanAccrualRatio(data)])]

\* one entry of calculate_valuation_ratios: absent (<<>>) unless both inputs
\* are truthy, else <<None>> or <<<<value>>>>: round(scale * num / den, 2) in
\* hundredths when den > 0
Ratio(num, den, scale) ==
    IF ~(Truthy(num) /\ Truthy(den)) THEN <<>>
    ELSE IF den[1] > 0 THEN << Some(Round(100 * scale * num[1], den[1])) >>
    ELSE << None >>

\* FormulaEngine.calculate_valuation_ratios: key -> <<>> (key absent) or
\* <<v>> (key present with the optional value v)
calculate_valuation_ratios(data) ==
    LET ev == IF data.market_cap = None THEN None
              ELSE Some(data.market_cap[1] + OrZero(data.total_debt)
                        - OrZero(data.cash_and_equivalents))
    IN  [pe_ratio |-> Ratio(data.stock_price, data.eps, 1),
         pb_ratio |-> Ratio(data.market_cap, data.shareholders_equity, 1),
         ps_ratio |-> Ratio(data.market_cap, data.revenue, 1),
         ev_ebitda |-> IF ~(Truthy(data.market_cap) /\ Truthy(data.ebitda)) THEN <<>>
                       ELSE IF data.ebitda[1] > 0
                            THEN << Some(Round(100 * ev[1], data.ebitda[1])) >>
                            ELSE << None >>,
         roe |-> Ratio(data.net_income, data.shareholders_equity, 100),
         roa |-> Ratio(data.net_income, data.total_assets, 100),
         gross_margin |-> Ratio(data.gross_profit, data.revenue, 100),
         net_margin |-> Ratio(data.net_income, data.revenue, 100),
         debt_to_equity |-> Ratio(data.total_debt, data.shareholders_equity, 1),
         current_ratio |-> Ratio(data.current_assets, data.current_liabilities, 1)]

----------------------------------------------------------------------------
(* The formula engine applied to one snapshot *)

\* half-width of the revenue ranges around the two Z-Score boundaries
ZSpread == 6

\* a snapshot with every field given; the current period improves on the
\* prior one
FullData ==
    [revenue |-> Some(40), gross_profit |-> Some(16), ebit |-> Some(8),
     ebitda |-> Some(10), net_income |-> Some(6), eps |-> Some(2),
     sga_expense |-> Some(5), depreciation |-> Some(2), total_assets |-> Some(50),
     current_assets |-> Some(20), total_liabilities |-> Some(25),
     current_liabilities |-> Some(8), total_debt |-> Some(15),
     long_term_debt |-> Some(12), shareholders_equity |-> Some(25),
     retained_earnings |-> Some(10), cash_and_equivalents |-> Some(5),
     net_receivables |-> Some(6), property_plant_equipment |-> Some(20),
     intangible_assets |-> Some(4), operating_cash_flow |-> Some(7),
     shares_outstanding |-> Some(10), market_cap |-> Some(60), stock_price |-> Some(6),
     revenue_prior |-> Some(36), gross_profit_prior |-> Some(14),
     net_income_prior |-> Some(5), total_assets_prior |-> Some(48),
     current_assets_prior |-> Some(18), current_liabilities_prior |-> Some(9),
     long_term_debt_prior |-> Some(13), shares_outstanding_prior |-> Some(11),
     net_receivables_prior |-> Some(5), sga_expense_prior |-> Some(5),
     depreciation_prior |-> Some(2), property_plant_equipment_prior |-> Some(19)]

\* a company whose current period is worse than the prior one
Declining ==
    [FullData EXCEPT
        !.revenue = Some(36), !.revenue_prior = Some(40),
        !.gross_profit = Some(14), !.gross_profit_prior = Some(16),
        !.net_income = Some(5), !.net_income_prior = Some(6),
        !.total_assets = Some(48), !.total_assets_prior = Some(50),
        !.current_assets = Some(18), !.current_assets_prior = Some(20),
        !.current_liabilities = Some(9), !.current_liabilities_prior = Some(8),
        !.long_term_debt = Some(13), !.long_term_debt_prior = Some(12),
        !.shares_outstanding = Some(11), !.shares_outstanding_prior = Some(10),
        !.operating_cash_flow = Some(4)]

\* groups of fields that a data provider leaves out or reports as zero
FieldGroups ==
    [prior |-> PriorFields,
     depreciation |-> {"depreciation"},
     ppe |-> {"property_plant_equipment"},
     assets |-> {"total_assets"},
     revenue |-> {"revenue"},
     income |-> {"net_income", "ebit", "ebitda", "eps", "gross_profit"},
     cash_flow |-> {"operating_cash_flow"},
     balance |-> {"current_assets", "current_liabilities", "total_liabilities",
                  "total_debt", "long_term_debt", "shareholders_equity",
                  "retained_earnings", "cash_and_equivalents", "net_receivables",
                  "intangible_assets", "sga_expense"},
     market |-> {"market_cap", "stock_price", "shares_outstanding"}]

\* snapshot d with the fields of each group kept, absent or zero
Degrade(d, how) ==
    [f \in Fields |->
        IF \E g \in DOMAIN FieldGroups : f \in FieldGroups[g] /\ how[g] = "none" THEN None
        ELSE IF \E g \in DOMAIN FieldGroups : f \in FieldGroups[g] /\ how[g] = "zero"
             THEN Some(0)
        ELSE d[f]]

\* snapshots whose Z-Score is revenue / 1000, around 1.81 and 2.99
ZData ==
    {[FundamentalData EXCEPT !.total_assets = Some(1000), !.revenue = Some(b + k)] :
        b \in {1810, 2990}, k \in (0 - ZSpread)..ZSpread}

Snapshots ==
    {Degrade(d, how) : d \in {FullData, Declining},
                       how \in [DOMAIN FieldGroups -> {"keep", "none", "zero"}]}
    \cup ZData

\* FormulaEngine.calculate_all(snap)
CalculateAll ==
    /\ formulas = None
    /\ formulas' = Some(calculate_all(snap[1]))
    /\ UNCHANGED <<dailyVars, screenOut, snap, ratios, briefVars, fetchVars, lateVars>>

\* FormulaEngine.calculate_valuation_ratios(snap)
CalculateValuationRatios ==
    /\ ratios = None
    /\ ratios' = Some(calculate_valuation_ratios(snap[1]))
    /\ UNCHANGED <<dailyVars, screenOut, snap, formulas, briefVars, fetchVars, lateVars>>

\* the orchestrator, the screener and the pick generation at rest
IdleDaily ==
    /\ companies = BaseCompanies
    /\ fetched = BaseFetched
    /\ request = NoRequest
    /\ today = 1
    /\ runs = {}
    /\ picks = <<>>
    /\ strategies = {}
    /\ nextRunId = 1
    /\ inv = [i \in Slots |-> IdleInv]
    /\ triggers = 0
    /\ overlapped = FALSE
    /\ cachedOut = None
    /\ liveOut = None
    /\ order1 = <<>>
    /\ order2 = <<>>
    /\ out1 = None
    /\ out2 = None

InitEngine ==
    /\ IdleDaily
    /\ screenOut = None
    /\ \E d \in Snapshots : snap = Some(d)
    /\ formulas = None
    /\ ratios = None
    /\ IdleBrief
    /\ IdleFetch
    /\ IdleLate

NextEngine == CalculateAll \/ CalculateValuationRatios

SpecEngine == InitEngine /\ [][NextEngine]_vars

----------------------------------------------------------------------------
(* The latest-run queries GET /daily-brief and GET /daily-brief/picks over *)
(* a runs table with at most one row per date, of any status               *)

\* mutant: the query without the status filter
LatestCompleted_AnyStatus(table) ==
    IF table = {} THEN None
    ELSE Some(CHOOSE r \in table : \A o \in table : o.run_date <= r.run_date)

\* .filter(status == "completed").order_by(run_date.desc()).first()
LatestCompleted(table) ==
    LET done == {r \in table : r.status = "completed"}
    IN  IF done = {} THEN None
        ELSE Some(CHOOSE r \in done : \A o \in done : o.run_date <= r.run_date)

\* HTTPException(status_code=404)
NotFound == [code |-> 404, run |-> None, picks |-> <<>>, strategies |-> {}]

\* get_latest_daily_brief
GetLatestDailyBrief ==
    /\ brief = None
    /\ LET run == LatestCompleted(runs)
       IN  IF run = None THEN brief' = Some(NotFound)
           ELSE LET rows == SelectSeq(picks, LAMBDA p : p.run_id = run[1].id)
                    all_tickers == {rows[n].ticker : n \in 1..Len(rows)}
                IN  brief' = Some([code |-> 200, run |-> run, picks |-> rows,
                                   strategies |->
                                      {st \in strategies :
                                          /\ st.ticker \in all_tickers
                                          /\ st.analysis_date = run[1].run_date}])
    /\ UNCHANGED <<dailyVars, screenOut, engineVars, todaysPicks, fetchVars, lateVars>>

\* get_todays_picks(screen)
GetTodaysPicks ==
    /\ todaysPicks = None
    /\ \E screen \in {None, Some("magic_formula"), Some("safe_stocks")} :
          LET run == LatestCompleted(runs)
          IN  IF run = None THEN todaysPicks' = Some(NotFound)
              ELSE LET rows == SelectSeq(picks, LAMBDA p :
                                   /\ p.run_id = run[1].id
                                   /\ screen # None => p.screen_name = screen[1])
                       keyed == [n \in 1..Len(rows) |-> [k |-> rows[n].rank, row |-> rows[n]]]
                       byRank == StableSort(keyed, FALSE)
                   IN  todaysPicks' =
                          Some([code |-> 200, run |-> run,
                                picks |-> [n \in 1..Len(byRank) |-> byRank[n].row],
                                strategies |-> {}])
    /\ UNCHANGED <<dailyVars, screenOut, engineVars, brief, fetchVars, lateVars>>

\* the run row of date d with status s as run_daily_analysis leaves it
RunOf(d, s) ==
    [id |-> d, run_date |-> d, status |-> s,
     error_message |-> IF s = "failed" THEN Some(1) ELSE None,
     stocks_analyzed |-> IF s = "completed" THEN 1 ELSE 0,
     stocks_passed |-> IF s = "completed" THEN 2 ELSE 0]

\* the rows of the runs of dates 1..d, in insertion order, for a choice of
\* the dates whose run has stored its picks
RECURSIVE PicksOfRuns(_, _)
PicksOfRuns(d, withPicks) ==
    IF d = 0 THEN <<>>
    ELSE PicksOfRuns(d - 1, withPicks) \o
         (IF d \in withPicks
          THEN GenerateDailyPicks(d, <<"AAA">>, BaseCompanies, BaseFetched)
          ELSE <<>>)

InitBrief ==
    /\ companies = BaseCompanies
    /\ fetched = BaseFetched
    /\ request = NoRequest
    /\ today \in 1..MaxDay
    /\ \E status \in [1..MaxDay -> {"none", "running", "completed", "failed"}] :
          /\ runs = {RunOf(d, status[d]) : d \in {x \in 1..MaxDay : status[x] # "none"}}
          /\ \E withPicks \in SUBSET {x \in 1..MaxDay : status[x] # "none"} :
                /\ picks = PicksOfRuns(MaxDay, withPicks)
                /\ \E dated \in SUBSET withPicks :
                      strategies = {[ticker |-> "AAA", analysis_date |-> d, by |-> d] :
                                       d \in dated}
    /\ nextRunId = MaxDay + 1
    /\ inv = [i \in Slots |-> IdleInv]
    /\ triggers = 0
    /\ overlapped = FALSE
    /\ cachedOut = None
    /\ liveOut = None
    /\ order1 = <<>>
    /\ order2 = <<>>
    /\ out1 = None
    /\ out2 = None
    /\ screenOut = None
    /\ IdleEngine
    /\ IdleBrief
    /\ IdleFetch
    /\ IdleLate

NextBrief == GetLatestDailyBrief \/ GetTodaysPicks

SpecBrief == InitBrief /\ [][NextBrief]_vars

----------------------------------------------------------------------------
(* _fetch_and_calculate_all: the batch loop and the process_one coroutines. *)
(* The companies of the call are numbered 1..universe in list order.  What  *)
(* the provider answers for a company is an input that depends on the       *)
(* company only:                                                            *)
(*   "etf_quote"  an ETF whose quote is returned                            *)
(*   "etf_none"   an ETF for which get_quote returns None                   *)
(*   "data"       a stock whose FundamentalData is built                    *)
(*   "no_data"    a stock for which build_fundamental_data returns None     *)
(*   "raises"     the provider call or the formula engine raises            *)

UsualAnswer(c) ==
    CASE c % (2 * EtfEvery) = 0 -> "etf_none"
      [] c % EtfEvery = 0       -> "etf_quote"
      [] c % 3 = 0              -> "raises"
      [] c % 4 = 0              -> "no_data"
      [] OTHER                  -> "data"

\* the answer for company c in this call: the fault, if c is the company
\* singled out to fail
ProviderAnswer(c) == IF c = fault.company THEN fault.how ELSE UsualAnswer(c)

\* mutant: process_one stores an entry whatever the answer
OutcomeOf_AlwaysStored(answer) == "succeeded"

\* how process_one leaves: with a results entry, without one, or through
\* the except clause
OutcomeOf(answer) ==
    CASE answer \in {"etf_quote", "data"}   -> "succeeded"
      [] answer \in {"etf_none", "no_data"} -> "skipped"
      [] OTHER                              -> "failed"

Outcome(c) == OutcomeOf(ProviderAnswer(c))

Finished == {"succeeded", "skipped", "failed"}

\* mutant: the slice is one company longer than the loop's stride
BatchOf_Overlapping(i) == {c \in 1..universe : i < c /\ c <= i + batch_size + 1}

\* companies[i : i + batch_size], as company numbers
BatchOf(i) == {c \in 1..universe : i < c /\ c <= i + batch_size}

\* mutant: the semaphore never blocks
Locked_Never(value) == FALSE

\* asyncio.Semaphore.locked(): acquire() has to wait
Locked(value) == value <= 0

InFlightFetches == {c \in 1..universe : task[c] = "fetching"}

\* tasks = [process_one(c, semaphore) for c in batch] and the start of gather:
\* one coroutine per company of the slice, each about to enter the semaphore
StartBatch ==
    /\ loop.pc = "batch"
    /\ loop.i < universe
    /\ task' = [c \in 1..universe |-> IF c \in BatchOf(loop.i) THEN "waiting"
                                       ELSE task[c]]
    /\ processed' = [c \in 1..universe |->
                        IF c \in BatchOf(loop.i) THEN processed[c] + 1
                        ELSE processed[c]]
    /\ loop' = [loop EXCEPT !.pc = "gather"]
    /\ UNCHANGED <<fault, universe, semaphore, results, pauses>>

\* async with semaphore: a waiting coroutine enters and starts its provider
\* call (get_quote for an ETF, build_fundamental_data otherwise)
Acquire(c) ==
    /\ task[c] = "waiting"
    /\ ~Locked(semaphore)
    /\ semaphore' = semaphore - 1
    /\ task' = [task EXCEPT ![c] = "fetching"]
    /\ UNCHANGED <<fault, universe, loop, results, pauses, processed>>

\* the provider call of company c completes: the rest of process_one runs
\* without awaiting (formulas, results entry or except clause) and the
\* semaphore is released
Release(c) ==
    /\ task[c] = "fetching"
    /\ task' = [task EXCEPT ![c] = Outcome(c)]
    /\ results' = IF Outcome(c) = "succeeded" THEN results \cup {c} ELSE results
    /\ semaphore' = semaphore + 1
    /\ UNCHANGED <<fault, universe, loop, pauses, processed>>

\* await asyncio.gather(*tasks, return_exceptions=True) returns when every
\* coroutine of the batch has left; then the loop sleeps if another batch
\* follows, else it goes on to its next iteration
GatherReturns ==
    /\ loop.pc = "gather"
    /\ \A c \in BatchOf(loop.i) : task[c] \in Finished
    /\ loop' = IF loop.i + batch_size < universe
               THEN [loop EXCEPT !.pc = "sleep"]
               ELSE [pc |-> "batch", i |-> loop.i + batch_size]
    /\ UNCHANGED <<fault, universe, task, semaphore, results, pauses, processed>>

\* await asyncio.sleep(2.0) returns; next iteration of the loop
WakeUp ==
    /\ loop.pc = "sleep"
    /\ pauses' = pauses \cup {loop.i}
    /\ loop' = [pc |-> "batch", i |-> loop.i + batch_size]
    /\ UNCHANGED <<fault, universe, task, semaphore, results, processed>>

\* range(0, len(companies), batch_size) is exhausted: close the provider
\* and return results
Return ==
    /\ loop.pc = "batch"
    /\ loop.i >= universe
    /\ loop' = [loop EXCEPT !.pc = "returned"]
    /\ UNCHANGED <<fault, universe, task, semaphore, results, pauses, processed>>

InitFetch ==
    /\ IdleDaily
    /\ screenOut = None
    /\ IdleEngine
    /\ IdleBrief
    /\ IdleLate
    /\ universe \in 0..MaxCompanies
    /\ task = [c \in 1..universe |-> "new"]
    /\ semaphore = concurrency
    /\ loop = [pc |-> "batch", i |-> 0]
    /\ results = {}
    /\ pauses = {}
    /\ processed = [c \in 1..universe |-> 0]
    /\ fault = NoFault

NextFetch ==
    \/ StartBatch
    \/ \E c \in 1..universe : Acquire(c)
    \/ \E c \in 1..universe : Release(c)
    \/ GatherReturns
    \/ WakeUp
    \/ Return

\* the ways the fetch or scoring of company c fails: the provider call or
\* the formula engine raises; no quote is returned for an ETF; no data is
\* built for a stock (also after exhausted retries)
FailureKinds(c) ==
    IF UsualAnswer(c) \in {"etf_quote", "etf_none"}
    THEN {"raises", "etf_none"}
    ELSE {"raises", "no_data"}

\* a call in which one company is singled out to fail
InitFault ==
    /\ IdleDaily
    /\ screenOut = None
    /\ IdleEngine
    /\ IdleBrief
    /\ IdleLate
    /\ universe = FaultUniverse
    /\ task = [c \in 1..universe |-> "new"]
    /\ semaphore = concurrency
    /\ loop = [pc |-> "batch", i |-> 0]
    /\ results = {}
    /\ pauses = {}
    /\ processed = [c \in 1..universe |-> 0]
    /\ \E c \in 1..universe :
          \E how \in FailureKinds(c) : fault = [company |-> c, how |-> how]

SpecFetch == InitFetch /\ [][NextFetch /\ UNCHANGED <<dailyVars, screenOut, engineVars, briefVars, lateVars>>]_vars

SpecFault == InitFault /\ [][NextFetch /\ UNCHANGED <<dailyVars, screenOut, engineVars, briefVars, lateVars>>]_vars

----------------------------------------------------------------------------
(* _with_retry and its caller _build_fundamental_data_sync, for one ticker. *)
(* What func() does at an attempt is an input: it returns a DataFrame with  *)
(* rows ("frame") or an empty one ("empty"), or it raises an exception, of  *)
(* which the code reads two things: whether str(e).lower() contains "429"   *)
(* or "too many requests" (rate) and whether it contains "no data"          *)
(* (no_data).                                                               *)

Errors == [kind : {"error"}, rate : BOOLEAN, no_data : BOOLEAN]

Returns == [kind : {"frame", "empty"}, rate : {FALSE}, no_data : {FALSE}]

RECURSIVE Pow2(_)
Pow2(n) == IF n = 0 THEN 1 ELSE 2 * Pow2(n - 1)

\* mutant: a rate-limit error is not told apart from the others
BackoffCase_Never(e, a) == FALSE

\* the if of line 66: a rate-limit error before the last attempt
BackoffCase(e, a) == e.rate /\ a < max_retries - 1

\* the elif of line 69: another error before the last attempt
FixedCase(e, a) == a < max_retries - 1 /\ ~e.no_data

\* one iteration of the loop of _with_retry for the current statement: func()
\* returns, or it raises and the call sleeps and goes on, or re-raises; the
\* exception leaves _with_retry and is caught at lines 231-233, which return
\* None
with_retry(answer) ==
    /\ stmt \in Statements
    /\ built = None
    /\ attempt < max_retries
    /\ answers' = [answers EXCEPT ![stmt] = Append(@, answer)]
    /\ IF answer \in Returns
       THEN /\ frames' = Append(frames, answer.kind)
            /\ stmt' = stmt + 1
            /\ attempt' = 0
            /\ UNCHANGED <<sleeps, built>>
       ELSE IF BackoffCase(answer, attempt)
       THEN \* base_delay * (2 ** attempt) + random.uniform(0, 1)
            /\ sleeps' = [sleeps EXCEPT ![stmt] =
                             Append(@, [kind |-> "backoff",
                                        delay |-> base_delay * Pow2(attempt)])]
            /\ attempt' = attempt + 1
            /\ UNCHANGED <<stmt, frames, built>>
       ELSE IF FixedCase(answer, attempt)
       THEN /\ sleeps' = [sleeps EXCEPT ![stmt] =
                             Append(@, [kind |-> "fixed", delay |-> base_delay])]
            /\ attempt' = attempt + 1
            /\ UNCHANGED <<stmt, frames, built>>
       ELSE /\ built' = Some("no_data")
            /\ UNCHANGED <<stmt, attempt, sleeps, frames>>

\* lines 112-230 after the three statements: None when the income statement
\* or the balance sheet is empty, else the FundamentalData; an exception
\* while it is built is caught at 231-233
build_fundamental_data_sync(ok) ==
    /\ stmt = Len(frames) + 1
    /\ stmt \notin Statements
    /\ built = None
    /\ built' = IF ok /\ frames[1] = "frame" /\ frames[2] = "frame"
                THEN Some("data") ELSE Some("no_data")
    /\ UNCHANGED <<stmt, attempt, answers, sleeps, frames>>

InitRetry ==
    /\ IdleDaily
    /\ screenOut = None
    /\ IdleEngine
    /\ IdleBrief
    /\ IdleFetch
    /\ IdlePlan
    /\ stmt = 1
    /\ attempt = 0
    /\ answers = [s \in Statements |-> <<>>]
    /\ sleeps = [s \in Statements |-> <<>>]
    /\ frames = <<>>
    /\ built = None

NextRetry ==
    \/ \E answer \in Returns \cup Errors : with_retry(answer)
    \/ \E ok \in BOOLEAN : build_fundamental_data_sync(ok)

SpecRetry ==
    InitRetry /\ [][NextRetry /\ UNCHANGED <<dailyVars, screenOut, engineVars,
                                             briefVars, fetchVars, planVars>>]_vars

----------------------------------------------------------------------------
(* generate_strategies_for_picks: the strategies process_ticker builds *)

\* Prices are counted in ticks of $0.0001, the unit of round(x, 4), the
\* builders' intermediate values in hundredths of a tick, rsi in hundredths,
\* risk_reward_ratio in hundredths, margin_of_safety in tenths of a percent.

\* closing prices of the histories: sub-cent prices and prices of a cent
PriceLevels == {4, 100, 120}

Histories == UNION {[1..n -> PriceLevels] : n \in 1..MaxHistory}

\* the values of the technical indicators: rsi on both sides of 30 and 45,
\* macd["bullish"], atr, and the two moving averages
Indicators ==
    [rsi : {None, Some(2999), Some(3000), Some(4499), Some(4500)},
     macd : {None, Some(0), Some(1)},
     atr : {None, Some(0), Some(10)},
     sma : {[sma20 |-> None, sma50 |-> None],
            [sma20 |-> Some(110), sma50 |-> Some(100)],
            [sma20 |-> Some(90), sma50 |-> Some(100)]}]

\* the metrics of the picks
PlanMetrics == {MetricsGood(5), MetricsWeak, MetricsMagic(20, 30)}

MinOf(S) == CHOOSE x \in S : \A y \in S : x <= y
MaxOf(S) == CHOOSE x \in S : \A y \in S : x >= y

\* find_support_resistance(prices, window): None, or the dict with the
\* optional keys support and resistance (levels are whole ticks, which
\* round(x, 4) leaves as they are)
find_support_resistance(prices, window) ==
    IF Len(prices) < window * 2 THEN None
    ELSE LET current == prices[Len(prices)]
             pivots == (window + 1)..(Len(prices) - window)
             segment(i) == {prices[j] : j \in (i - window)..(i + window)}
             supports == {prices[i] : i \in {k \in pivots : prices[k] = MinOf(segment(k))}}
             resistances == {prices[i] : i \in {k \in pivots :
                                                   /\ prices[k] # MinOf(segment(k))
                                                   /\ prices[k] = MaxOf(segment(k))}}
             support_levels == {x \in supports : x < current}
             resistance_levels == {x \in resistances : x > current}
             result == [support |-> IF support_levels # {}
                                    THEN Some(MaxOf(support_levels)) ELSE None,
                        resistance |-> IF resistance_levels # {}
                                       THEN Some(MinOf(resistance_levels)) ELSE None]
         IN  IF result.support = None /\ result.resistance = None THEN None
             ELSE Some(result)

\* sr.get(key) of "if sr and sr.get(key)"
SrGet(sr, key) == IF sr = None THEN None ELSE sr[1][key]

\* the confidence tiers of _build_swing_strategy
SwingConfidence_HighFromTwo(confidence_points) ==
    IF confidence_points >= 2 THEN "high" ELSE "low"
SwingConfidence(confidence_points) ==
    IF confidence_points >= 3 THEN "high"
    ELSE IF confidence_points >= 2 THEN "medium"
    ELSE "low"

\* the confidence tiers of _build_position_strategy and _build_longterm_strategy
Confidence(confidence_points) ==
    IF confidence_points >= 4 THEN "high"
    ELSE IF confidence_points >= 2 THEN "medium"
    ELSE "low"

\* _build_swing_strategy(ticker, today, price, closes, highs, lows, metrics):
\* the StockStrategy row, with the locals risk and take_profit - price that
\* the rationale reports
build_swing_strategy(price, sr, ind) ==
    LET first_stop == IF Truthy(SrGet(sr, "support")) THEN 100 * SrGet(sr, "support")[1]
                      ELSE IF Truthy(ind.atr) THEN 100 * (price - ind.atr[1] * 2)
                      ELSE 95 * price
        floored == 100 * price - first_stop <= 0
        risk == IF floored THEN 5 * price ELSE 100 * price - first_stop
        stop_loss == IF floored THEN 100 * price - risk ELSE first_stop
        take_profit == IF Truthy(SrGet(sr, "resistance"))
                       THEN 100 * SrGet(sr, "resistance")[1]
                       ELSE 100 * price + risk * 2
        rr_ratio == IF risk > 0 THEN Round(100 * (take_profit - 100 * price), risk) ELSE 0
        confidence_points ==
            (IF ind.rsi = None THEN 0
             ELSE IF ind.rsi[1] < 3000 THEN 2
             ELSE IF ind.rsi[1] < 4500 THEN 1 ELSE 0)
            + (IF Truthy(ind.macd) THEN 1 ELSE 0)
            + (IF ind.sma.sma50 # None /\ price > ind.sma.sma50[1] THEN 1 ELSE 0)
    IN  [timeframe |-> "swing",
         entry_price |-> Round(100 * price, 100),
         stop_loss |-> Round(stop_loss, 100),
         take_profit |-> Round(take_profit, 100),
         risk_reward_ratio |-> Some(rr_ratio),
         confidence |-> SwingConfidence(confidence_points),
         risk |-> Some(risk),
         reward |-> Some(take_profit - 100 * price)]

\* _build_position_strategy: risk and reward are taken of the rounded levels
build_position_strategy(price, ind, metrics) ==
    LET entry == Round(97 * price, 100)
        stop_loss == Round(90 * price, 100)
        take_profit == Round(120 * price, 100)
        risk == entry - stop_loss
        reward == take_profit - entry
        rr_ratio == IF risk > 0 THEN Round(100 * reward, risk) ELSE 0
        f_score == Get(metrics, "f_score")
        z_score == Get(metrics, "z_score")
        pe == Get(metrics, "pe_ratio")
        confidence_points ==
            (IF Truthy(ind.sma.sma20) /\ Truthy(ind.sma.sma50)
                /\ ind.sma.sma20[1] > ind.sma.sma50[1] THEN 1 ELSE 0)
            + (IF f_score = None THEN 0
               ELSE IF f_score[1] >= 7 THEN 2
               ELSE IF f_score[1] >= 5 THEN 1 ELSE 0)
            + (IF z_score # None /\ z_score[1] > 299 THEN 1 ELSE 0)
            + (IF pe # None /\ pe[1] > 0 /\ pe[1] < 15 THEN 1 ELSE 0)
    IN  [timeframe |-> "position",
         entry_price |-> entry,
         stop_loss |-> stop_loss,
         take_profit |-> take_profit,
         risk_reward_ratio |-> Some(rr_ratio),
         confidence |-> Confidence(confidence_points),
         risk |-> Some(100 * risk),
         reward |-> Some(100 * reward)]

\* _build_longterm_strategy: fair_value is rounded to whole cents
build_longterm_strategy(price, metrics) ==
    LET earnings_yield == Get(metrics, "earnings_yield")
        roe == Get(metrics, "roe")
        z_score == Get(metrics, "z_score")
        f_score == Get(metrics, "f_score")
        fair_value == IF Truthy(earnings_yield) /\ earnings_yield[1] > 0
                      THEN Some(100 * Round(price * earnings_yield[1] * 15, 100 * 100))
                      ELSE None
        margin_of_safety == IF fair_value # None /\ fair_value[1] > 0
                            THEN Some(Round(1000 * (fair_value[1] - price), fair_value[1]))
                            ELSE None
        confidence_points ==
            (IF z_score # None /\ z_score[1] > 299 THEN 1 ELSE 0)
            + (IF f_score = None THEN 0
               ELSE IF f_score[1] >= 7 THEN 2
               ELSE IF f_score[1] >= 5 THEN 1 ELSE 0)
            + (IF roe # None /\ roe[1] > 20 THEN 1 ELSE 0)
            + (IF margin_of_safety = None THEN 0
               ELSE IF margin_of_safety[1] > 300 THEN 2
               ELSE IF margin_of_safety[1] > 100 THEN 1 ELSE 0)
    IN  [timeframe |-> "longterm",
         entry_price |-> Round(100 * price, 100),
         stop_loss |-> Round(75 * price, 100),
         take_profit |-> IF Truthy(fair_value) /\ fair_value[1] > price
                         THEN fair_value[1] ELSE Round(150 * price, 100),
         risk_reward_ratio |-> None,
         confidence |-> Confidence(confidence_points),
         risk |-> None,
         reward |-> None]

\* current_price = closes[-1]
current_price == closes[Len(closes)]

\* swing = _build_swing_strategy(...); strategies.append(swing)
BuildSwing ==
    /\ Len(plans) = 0
    /\ plans' = Append(plans, build_swing_strategy(
                                  current_price,
                                  find_support_resistance(closes, SRWindow),
                                  indicators))
    /\ UNCHANGED <<closes, indicators, ticker_metrics>>

\* position = _build_position_strategy(...); strategies.append(position)
BuildPosition ==
    /\ Len(plans) = 1
    /\ plans' = Append(plans, build_position_strategy(current_price, indicators,
                                                      ticker_metrics))
    /\ UNCHANGED <<closes, indicators, ticker_metrics>>

\* longterm = _build_longterm_strategy(...); strategies.append(longterm)
BuildLongterm ==
    /\ Len(plans) = 2
    /\ plans' = Append(plans, build_longterm_strategy(current_price, ticker_metrics))
    /\ UNCHANGED <<closes, indicators, ticker_metrics>>

InitPlan ==
    /\ IdleDaily
    /\ screenOut = None
    /\ IdleEngine
    /\ IdleBrief
    /\ IdleFetch
    /\ IdleRetry
    /\ closes \in Histories
    /\ indicators \in Indicators
    /\ ticker_metrics \in PlanMetrics
    /\ plans = <<>>

NextPlan ==
    \/ BuildSwing
    \/ BuildPosition
    \/ BuildLongterm

SpecPlan ==
    InitPlan /\ [][NextPlan /\ UNCHANGED <<dailyVars, screenOut, engineVars,
                                           briefVars, fetchVars, retryVars>>]_vars

----------------------------------------------------------------------------
(* Properties of run_daily_analysis (specification Spec) *)

Days == 1..MaxDay

\* C1: on every date there is at most one run record of any status, hence
\* at most one completed run, after any sequence of invocations
C1_OneRunPerDate ==
    \A d \in Days :
        /\ Cardinality({r \in runs : r.run_date = d}) <= 1
        /\ Cardinality({r \in runs : r.run_date = d /\ r.status = "completed"}) <= 1

\* two invocations ran one after the other on one date and the second one
\* replaced the first one's run
C1_Witness ==
    /\ ~overlapped
    /\ triggers = 2
    /\ \E r \in runs : r.id = 2 /\ r.run_date = 1 /\ r.status = "completed"

\* C2: a non-forced invocation that finds a completed run of today changes
\* no run, pick or strategy row and runs no stage
C2_NonForcedNoOp ==
    [][(/\ triggers' = triggers + 1
        /\ ~inv'[FreeSlot].force
        /\ \E r \in runs : r.run_date = today /\ r.status = "completed")
       => (/\ runs' = runs
           /\ picks' = picks
           /\ strategies' = strategies
           /\ inv'[FreeSlot].pc = "done"
           /\ inv'[FreeSlot].ran = {})]_vars

\* a non-forced invocation returned without starting a run, next to the
\* completed run of its date and that run's picks
C2_Witness ==
    \E i \in Slots :
        /\ inv[i].pc = "done" /\ ~inv[i].started /\ ~inv[i].force
        /\ \E r \in runs :
              /\ r.run_date = inv[i].run_date /\ r.status = "completed"
              /\ \E n \in 1..Len(picks) : picks[n].run_id = r.id

\* C3 as claimed: once invocations do not overlap, no TradePlan written by
\* a run whose record is deleted remains stored
C3_PriorRunFullyDeleted ==
    ~overlapped => \A s \in strategies : \E r \in runs : r.id = s.by

\* C4 as claimed: an invocation that started a run ends with all eight
\* stages executed and its run completed
C4_EveryStageIsolated ==
    \A i \in Slots :
        (inv[i].pc = "done" /\ inv[i].started /\ ~overlapped)
        => /\ inv[i].ran = 1..8
           /\ \E r \in runs : r.id = inv[i].run_id /\ r.status = "completed"

\* C5: a run record is created as running, and a record's status changes
\* only from running, to completed or to failed
C5_StatusTransitions ==
    [][/\ \A r \in runs' : (\A o \in runs : o.id # r.id) => r.status = "running"
       /\ \A o \in runs, r \in runs' :
             (o.id = r.id /\ o.status # r.status)
             => (o.status = "running" /\ r.status \in {"completed", "failed"})]_vars

\* a failed run and a completed run are stored (on different dates)
C5_Witness ==
    \E r1, r2 \in runs : r1.status = "failed" /\ r2.status = "completed"

\* the step in which an exception leaves slot i's invocation outside every
\* stage guard (steps 3 and 4 are not inside a try)
Escapes(i) ==
    /\ inv[i].pc \in {"stage3", "stage4"}
    /\ inv'[i].pc = "done"

PastPicks(j) ==
    /\ inv[j].started
    /\ inv[j].pc \notin {"idle", "done", "stage1", "stage2", "stage3", "stage4"}
    /\ inv[j].run_date = today
    /\ RunExists(inv[j].run_id)

\* C18: nothing excludes a second invocation for the same date while the
\* first is in flight: when no completed run of today exists, an invocation
\* that starts deletes the run row and the picks of the one in flight and
\* creates its own running run
C18_NoMutualExclusion ==
    [][\A j \in Slots :
          (/\ PastPicks(j)
           /\ triggers' = triggers + 1
           /\ ~\E r \in runs : r.run_date = today /\ r.status = "completed")
          => /\ inv'[j] = inv[j]
             /\ \A r \in runs' : r.id # inv[j].run_id
             /\ \A n \in 1..Len(picks') : picks'[n].run_id # inv[j].run_id
             /\ \E r \in runs' : /\ r.id = inv'[FreeSlot].run_id
                                 /\ r.run_date = today
                                 /\ r.status = "running"]_vars

\* two non-forced invocations of the same date are both in flight, both
\* past the completed-run check, and the run row and the picks that the
\* first one stored are gone
C18_Witness ==
    \E i, j \in Slots :
        /\ i # j
        /\ InFlight(i) /\ inv[i].started /\ ~inv[i].force
        /\ InFlight(j) /\ inv[j].started /\ ~inv[j].force
        /\ inv[i].run_date = inv[j].run_date
        /\ inv[j].pc \notin {"stage1", "stage2", "stage3", "stage4"}
        /\ inv[j].picks_count > 0
        /\ ~RunExists(inv[j].run_id)
        /\ \A n \in 1..Len(picks) : picks[n].run_id # inv[j].run_id

\* the daily_picks rows of run id, in a state of the table
PicksOfRun(table, id) == SelectSeq(table, LAMBDA p : p.run_id = id)

\* the stock_strategies rows written by the invocation of run id
StrategiesOfRun(table, id) == {s \in table : s.by = id}

\* C23: the picks and strategies of a run are inserted, deleted and
\* overwritten only by the invocation that created the run: while that
\* invocation is in flight, a step of another invocation leaves them as
\* they are
C23_OnlyCreatorWrites ==
    [][\A j \in Slots :
          (InFlight(j) /\ inv[j].started /\ inv'[j] = inv[j])
          => /\ PicksOfRun(picks', inv[j].run_id) = PicksOfRun(picks, inv[j].run_id)
             /\ StrategiesOfRun(strategies', inv[j].run_id)
                   = StrategiesOfRun(strategies, inv[j].run_id)]_vars

\* C28: every stored DailyPick carries the id of a stored DailyAnalysisRun
C28_NoOrphanPicks ==
    \A n \in 1..Len(picks) : \E r \in runs : r.id = picks[n].run_id

\* picks are stored while an invocation whose run row was deleted under it
\* has been refused its own picks at step 4
C28_Witness ==
    /\ Len(picks) > 0
    /\ \E j \in Slots :
          /\ inv[j].pc = "done" /\ inv[j].started
          /\ 4 \in inv[j].ran /\ 5 \notin inv[j].ran
          /\ \A r \in runs : r.id # inv[j].run_id

\* C29: a run row that is running stays stored until it is completed or
\* failed, and an invocation that ends leaves its run completed or failed
C29_RunsLeaveRunning ==
    [][/\ \A r \in runs :
             r.status = "running" => \E q \in runs' : q.id = r.id
       /\ \A i \in Slots :
             (inv[i].started /\ InFlight(i) /\ inv'[i].pc = "done")
             => \E q \in runs' : /\ q.id = inv[i].run_id
                                 /\ q.status \in {"completed", "failed"}]_vars

----------------------------------------------------------------------------
(* Properties of the screens (specifications SpecScreen and SpecPicks) *)

\* C7 as claimed: among the stored picks of a run no ticker is under more
\* than one screen
C7_StoredPicksOneScreen ==
    \A m, n \in 1..Len(picks) :
        (picks[m].run_id = picks[n].run_id /\ picks[m].ticker = picks[n].ticker)
        => picks[m].screen_name = picks[n].screen_name

\* C8 as claimed: for one request, companies table and metrics, the cached
\* path and the live path return the same tickers with the same ranks
C8_CachedEqualsLive ==
    (cachedOut # None /\ liveOut # None) => cachedOut = liveOut

\* the picks as (ticker, screen, rank) triples
PickTriples(rows) ==
    {[ticker |-> rows[n].ticker, screen_name |-> rows[n].screen_name,
      rank |-> rows[n].rank] : n \in 1..Len(rows)}

\* C9 as claimed: the picks and their ranks do not depend on the insertion
\* order of the results map
C9_OrderIndependent ==
    (out1 # None /\ out2 # None) => PickTriples(out1[1]) = PickTriples(out2[1])

\* the candidates of screen cfg among the results in order1
CandidatesOf(cfg) ==
    {t \in SeqToSet(order1) : IsCandidate(t, cfg, companies, fetched)}

\* rows are the picks of screen cfg with ranks 1..k in sort order, k the
\* smaller of the number of candidates and the cap, and no candidate left
\* out sorts before a stored one
DenseRanked(rows, cfg) ==
    LET key(t) == sort_fn(t, cfg.sort_by, companies, fetched)
        ahead(a, b) == IF cfg.sort_order = "desc" THEN key(a) >= key(b)
                       ELSE key(a) <= key(b)
    IN  /\ Len(rows) = Min(Cardinality(CandidatesOf(cfg)), cfg.limit)
        /\ \A i \in 1..Len(rows) : rows[i].rank = i /\ rows[i].ticker \in CandidatesOf(cfg)
        /\ \A i, j \in 1..Len(rows) : i # j => rows[i].ticker # rows[j].ticker
        /\ \A i, j \in 1..Len(rows) : i < j => ahead(rows[i].ticker, rows[j].ticker)
        /\ \A i \in 1..Len(rows) :
              \A t \in CandidatesOf(cfg) \ {rows[n].ticker : n \in 1..Len(rows)} :
                  ahead(rows[i].ticker, t)

\* the rows of one screen among the rows of a run, in stored order
RowsOfScreen(rows, name) == SelectSeq(rows, LAMBDA r : r.screen_name = name)

\* C11: the picks stored for a screen carry the ranks 1..k without gap or
\* duplicate, k = min(candidates passing the screen, result cap), and a
\* smaller rank is never later in the screen's sort order
C11_DenseRanks ==
    /\ screenOut # None => DenseRanked(screenOut[1].rows, screenOut[1].cfg)
    /\ out1 # None =>
          \A n \in 1..Len(PRESET_SCREENS) :
              PRESET_SCREENS[n].id # "red_flag_watch" =>
                  DenseRanked(RowsOfScreen(out1[1], PRESET_SCREENS[n].id), PRESET_SCREENS[n])

\* a screen with three candidates and cap 2 stored two picks, and the two
\* stored candidates do not tie
C11_Witness ==
    /\ screenOut # None
    /\ Cardinality(CandidatesOf(screenOut[1].cfg)) = 3
    /\ screenOut[1].cfg.limit = 2
    /\ Len(screenOut[1].rows) = 2
    /\ sort_fn(screenOut[1].rows[1].ticker, screenOut[1].cfg.sort_by, companies, fetched)
          # sort_fn(screenOut[1].rows[2].ticker, screenOut[1].cfg.sort_by, companies, fetched)

\* the combined Magic Formula rank of candidate t among the candidates S:
\* its position by earnings yield plus its position by return on capital,
\* the highest value first; a lower combined rank is better
MagicFormulaRank(t, S) ==
    LET ey(u)  == fetched[u].earnings_yield[1]
        roc(u) == fetched[u].return_on_capital[1]
    IN  (1 + Cardinality({u \in S : ey(u) > ey(t)}))
        + (1 + Cardinality({u \in S : roc(u) > roc(t)}))

\* C12 as claimed: the Magic Formula screen with cap 2 over three eligible
\* companies stores two picks, ranked 1 and 2, which are the two companies
\* of the best combined rank of earnings yield and return on capital
C12_MagicFormulaTopTwo ==
    (/\ screenOut # None
     /\ screenOut[1].cfg.id = "magic_formula"
     /\ screenOut[1].cfg.limit = 2
     /\ Cardinality(CandidatesOf(screenOut[1].cfg)) = 3
     /\ \A t \in Tickers : Get(fetched[t], "earnings_yield") # None
                           /\ Get(fetched[t], "return_on_capital") # None)
    => LET rows == screenOut[1].rows
           S    == CandidatesOf(screenOut[1].cfg)
       IN  /\ Len(rows) = 2
           /\ rows[1].rank = 1 /\ rows[2].rank = 2
           /\ MagicFormulaRank(rows[1].ticker, S) <= MagicFormulaRank(rows[2].ticker, S)
           /\ \A t \in S \ {rows[1].ticker, rows[2].ticker} :
                  MagicFormulaRank(rows[2].ticker, S) <= MagicFormulaRank(t, S)

\* what a predicate (metric, operator, value) means on a metrics dict
PredicateTrue(f, metrics) ==
    LET v == Get(metrics, f.metric)
    IN  /\ v # None
        /\ CASE f.operator = ">"  -> v[1] > f.value
             [] f.operator = "<"  -> v[1] < f.value
             [] f.operator = ">=" -> v[1] >= f.value
             [] f.operator = "<=" -> v[1] <= f.value
             [] f.operator = "==" -> v[1] = f.value
             [] f.operator = "between" -> f.value <= v[1] /\ v[1] <= f.hi

ScreenNamed(name) ==
    PRESET_SCREENS[CHOOSE n \in 1..Len(PRESET_SCREENS) : PRESET_SCREENS[n].id = name]

\* C10 as claimed: every stored pick satisfies every predicate of its
\* screen, and every result of run_screen every predicate of the request,
\* on a defined metric value
C10_PredicatesFailClosed ==
    /\ \A n \in 1..Len(picks) :
          LET fs == ScreenNamed(picks[n].screen_name).filters
          IN  \A k \in 1..Len(fs) : PredicateTrue(fs[k], picks[n].metrics)
    /\ \A out \in {cachedOut, liveOut} :
          out # None =>
             \A n \in 1..Len(out[1]) : \A k \in 1..Len(request.filters) :
                 PredicateTrue(request.filters[k], fetched[out[1][n].ticker])

\* the sort value of ticker t: its value of the sort metric when that is
\* defined (0 and False included), its market cap only when it is not
SortValueOfMetric(t, sort_key) ==
    LET val == Get(fetched[t], sort_key)
    IN  IF val # None THEN val[1] ELSE OrZero(companies[t].market_cap)

\* rows (records with a ticker) are in the order of that sort value
OrderedBySortValue(rows, sort_key, sort_order) ==
    \A i \in 1..(Len(rows) - 1) :
        IF sort_order = "desc"
        THEN SortValueOfMetric(rows[i].ticker, sort_key)
                >= SortValueOfMetric(rows[i + 1].ticker, sort_key)
        ELSE SortValueOfMetric(rows[i].ticker, sort_key)
                <= SortValueOfMetric(rows[i + 1].ticker, sort_key)

\* C24: in every sorting path the rows are ordered by the value of the
\* configured sort metric when it is defined, 0 included, and by the market
\* cap only when it is undefined: the stored picks of every preset screen,
\* the cached screen result and the live screen result
C24_SortValueIsMetric ==
    /\ \A n \in 1..Len(PRESET_SCREENS) :
          OrderedBySortValue(RowsOfScreen(picks, PRESET_SCREENS[n].id),
                             PRESET_SCREENS[n].sort_by, PRESET_SCREENS[n].sort_order)
    /\ cachedOut # None
          => OrderedBySortValue(cachedOut[1], request.sort_by, request.sort_order)
    /\ liveOut # None
          => OrderedBySortValue(liveOut[1], request.sort_by, request.sort_order)

----------------------------------------------------------------------------
(* Properties of the formula engine (specification SpecEngine) *)

\* a quotient of two snapshot fields is undefined
Undefined(num, den) ==
    snap[1][num] = None \/ snap[1][den] = None \/ snap[1][den] = Some(0)

\* C13 as claimed: calculate_all and calculate_valuation_ratios return
\* without raising on every snapshot, and a valuation ratio whose
\* denominator is absent or zero is undefined
C13_NeverRaises ==
    /\ formulas # None => ~formulas[1].raised
    /\ ratios # None =>
          /\ Undefined("stock_price", "eps") => Get(ratios[1], "pe_ratio") \in {<<>>, <<None>>}
          /\ Undefined("net_income", "shareholders_equity")
                => Get(ratios[1], "roe") \in {<<>>, <<None>>}
          /\ Undefined("current_assets", "current_liabilities")
                => Get(ratios[1], "current_ratio") \in {<<>>, <<None>>}

\* the tests of the F-Score that compare the current with the prior period,
\* each with the quotients (numerator, denominator) it compares
ComparisonTests ==
    [roa_improving |-> << <<"net_income", "total_assets">>,
                          <<"net_income_prior", "total_assets_prior">> >>,
     leverage_decreasing |-> << <<"long_term_debt", "total_assets">>,
                                <<"long_term_debt_prior", "total_assets_prior">> >>,
     liquidity_improving |-> << <<"current_assets", "current_liabilities">>,
                                <<"current_assets_prior", "current_liabilities_prior">> >>,
     gross_margin_improving |-> << <<"gross_profit", "revenue">>,
                                   <<"gross_profit_prior", "revenue_prior">> >>,
     asset_turnover_improving |-> << <<"revenue", "total_assets">>,
                                     <<"revenue_prior", "total_assets_prior">> >>]

\* C14: f_score is an integer in 0..9, the number of tests scored 1; a
\* comparison with a missing or undefined side scores 0; with every
\* prior-period field absent only roa_positive, cfo_positive and
\* accruals_quality can score, so f_score is at most 3
C14_FScore ==
    (formulas # None /\ ~formulas[1].raised) =>
        LET p == formulas[1].results[1].piotroski
            b == p.breakdown
        IN  /\ p.f_score \in 0..9
            /\ \A k \in DOMAIN b : b[k] \in {0, 1}
            /\ p.f_score = Cardinality({k \in DOMAIN b : b[k] = 1})
            /\ \A k \in DOMAIN ComparisonTests :
                  (\E i \in 1..2 : Undefined(ComparisonTests[k][i][1],
                                             ComparisonTests[k][i][2]))
                  => b[k] = 0
            /\ (snap[1].shares_outstanding = None \/ snap[1].shares_outstanding_prior = None)
                  => b.no_dilution = 0
            /\ (\A f \in PriorFields : snap[1][f] = None) =>
                  /\ p.f_score <= 3
                  /\ \A k \in DOMAIN b :
                        b[k] = 1 => k \in {"roa_positive", "cfo_positive", "accruals_quality"}

\* the F-Score of a snapshot without prior-period fields was computed and
\* the three tests that need no prior period all scored
C14_Witness ==
    /\ formulas # None /\ ~formulas[1].raised
    /\ \A f \in PriorFields : snap[1][f] = None
    /\ formulas[1].results[1].piotroski.f_score = 3

\* C15 as claimed: for a snapshot without any prior-period field the
\* Z-Score, the M-Score and the Sloan accrual ratio are all None
C15_UndefinedWithoutPrior ==
    (/\ formulas # None /\ ~formulas[1].raised
     /\ \A f \in PriorFields : snap[1][f] = None)
    => /\ formulas[1].results[1].altman_z = None
       /\ formulas[1].results[1].beneish_m = None
       /\ formulas[1].results[1].sloan_accrual = None

\* the value C25 gives a component: 1.0 when its ratio is undefined, else
\* the computed ratio, in thousandths
NeutralWhenUndefined(x) == IF x = None THEN 1000 ELSE Round(1000 * x[1].n, x[1].d)

\* C25 as claimed: wherever the guard of the M-Score passes, the score is
\* defined and each of DSRI, GMI, AQI, DEPI, SGAI and LVGI is 1.0 exactly
\* when its ratio is undefined and else its computed value, zero included
C25_NeutralExactlyWhenUndefined ==
    (formulas # None /\ BeneishApplies(snap[1]))
    => /\ ~formulas[1].raised
       /\ formulas[1].results[1].beneish_m # None
       /\ \A X \in DOMAIN BeneishRatios(snap[1]) :
             formulas[1].results[1].beneish_m[1].components[X]
                 = NeutralWhenUndefined(BeneishRatios(snap[1])[X])

\* C16 as claimed: the interpretation returned with a z_score is Safe iff
\* z_score > 2.99, Grey Zone iff 1.81 < z_score <= 2.99, Distress iff
\* z_score <= 1.81
C16_ZoneMatchesScore ==
    (/\ formulas # None /\ ~formulas[1].raised
     /\ formulas[1].results[1].altman_z # None)
    => LET z == formulas[1].results[1].altman_z[1]
       IN  /\ z.interpretation = "Safe" <=> z.z_score > 299
           /\ z.interpretation = "Grey Zone" <=> (181 < z.z_score /\ z.z_score <= 299)
           /\ z.interpretation = "Distress" <=> z.z_score <= 181

----------------------------------------------------------------------------
(* Properties of the latest-run queries (specification SpecBrief) *)

\* a response is 404 when no completed run exists; else it carries the
\* completed run of the greatest run_date and only picks of that run
LatestRunResponse(resp) ==
    LET done == {r \in runs : r.status = "completed"}
    IN  /\ done = {} <=> resp.code = 404
        /\ resp.code = 404 => resp.run = None /\ resp.picks = <<>>
        /\ resp.code # 404 =>
              /\ resp.run # None
              /\ resp.run[1] \in done
              /\ \A o \in done : o.run_date <= resp.run[1].run_date
              /\ \A n \in 1..Len(resp.picks) : resp.picks[n].run_id = resp.run[1].id

----------------------------------------------------------------------------
(* Properties of the fetch-and-score stage (specification SpecFetch) *)

\* C19: at every moment at most `concurrency` companies are inside the
\* semaphore-guarded section of process_one, and the semaphore's value is
\* the number of free places
C19_InFlightBounded ==
    /\ Cardinality(InFlightFetches) <= concurrency
    /\ semaphore = concurrency - Cardinality(InFlightFetches)

\* the cap binds: the section is full while coroutines of the batch wait
C19_Witness ==
    /\ Cardinality(InFlightFetches) = concurrency
    /\ \E c \in 1..universe : task[c] = "waiting"
    /\ \E c \in 1..universe : task[c] \in Finished

\* the number of the batch of company c, counted from 0
BatchNo(c) == (c - 1) \div batch_size

\* the companies of batch k: the k-th run of batch_size consecutive companies
Members(k) == (k * batch_size + 1)..Min(universe, (k + 1) * batch_size)

\* C20: the companies are processed in consecutive batches of batch_size:
\* the coroutines of a batch are created together; none of a later batch
\* exists before every company of the earlier batches has finished; the
\* loop has slept after every batch that is followed by another one, before
\* that one starts, and never after the last; no company is handed to
\* process_one twice, and until it returns the stage can take a step; when
\* it returns every company has been processed once and has finished
C20_BatchesInOrder ==
    /\ \A k \in 0..BatchNo(universe) :
          \/ \A c \in Members(k) : task[c] = "new"
          \/ /\ \A c \in Members(k) : task[c] # "new"
             /\ \A c \in 1..(k * batch_size) : task[c] \in Finished
             /\ k > 0 => (k - 1) * batch_size \in pauses
    /\ \A i \in pauses : i + batch_size < universe
    /\ loop.pc = "sleep" => /\ loop.i + batch_size < universe
                            /\ \A c \in 1..universe : task[c] \notin {"waiting", "fetching"}
    /\ \A c \in 1..universe : processed[c] <= 1
    /\ \A c \in 1..universe : (task[c] = "new") <=> (processed[c] = 0)
    /\ loop.pc # "returned" => ENABLED NextFetch
    /\ loop.pc = "returned" =>
          /\ \A c \in 1..universe : processed[c] = 1 /\ task[c] \in Finished
          /\ pauses = {k * batch_size : k \in 0..(BatchNo(universe) - 1)}
          /\ results = {c \in 1..universe : Outcome(c) = "succeeded"}

\* a call with two full batches and a third one has returned after two
\* pauses, with companies that succeeded, were skipped and failed
C20_Witness ==
    /\ loop.pc = "returned"
    /\ universe > 2 * batch_size
    /\ Cardinality(pauses) = 2
    /\ \A o \in Finished : \E c \in 1..universe : task[c] = o

\* the results map of the call in which no company is singled out to fail
UsualResults == {c \in 1..universe : OutcomeOf(UsualAnswer(c)) = "succeeded"}

\* C21: a failure of one company never aborts the stage and never changes
\* another company's result: the failing company never has an entry, every
\* other company leaves process_one as it does when that company does not
\* fail, the stage can always take a step until it returns, and it returns
\* the entries of the other companies
C21_FailureIsolated ==
    /\ fault.company \notin results
    /\ results \subseteq UsualResults
    /\ \A c \in 1..universe :
          (c # fault.company /\ task[c] \in Finished)
              => /\ task[c] = OutcomeOf(UsualAnswer(c))
                 /\ (c \in results) <=> (c \in UsualResults)
    /\ loop.pc # "returned" => ENABLED NextFetch
    /\ loop.pc = "returned" =>
          /\ results = UsualResults \ {fault.company}
          /\ \A c \in 1..universe : processed[c] = 1 /\ task[c] \in Finished

\* the stage has returned after a company that otherwise succeeds failed:
\* a company of the same batch and one of the next batch have their entries
C21_Witness ==
    /\ loop.pc = "returned"
    /\ fault.company \in UsualResults
    /\ fault.company <= batch_size
    /\ \E c \in results : c <= batch_size
    /\ \E c \in results : c > batch_size

----------------------------------------------------------------------------
(* Properties of the retry wrapper (specification SpecRetry) *)

\* the attempts of the _with_retry call of statement s that ended in a
\* rate-limit error
RateLimitedAttempts(s) ==
    {k \in 1..Len(answers[s]) : answers[s][k] \in Errors /\ answers[s][k].rate}

\* C22: a _with_retry call invokes func at most max_retries times; after a
\* rate-limit error on an attempt before the last it sleeps a backoff delay
\* and makes another attempt; a rate-limit error on the last attempt leaves
\* the call, no further statement is fetched, and the caller returns None,
\* for which process_one skips the company
C22_BoundedRetries ==
    \A s \in Statements :
        /\ Len(answers[s]) <= max_retries
        /\ \A k \in RateLimitedAttempts(s) :
              IF k < max_retries
              THEN /\ Len(sleeps[s]) >= k
                   /\ sleeps[s][k] = [kind |-> "backoff",
                                      delay |-> base_delay * Pow2(k - 1)]
                   /\ \/ Len(answers[s]) > k
                      \/ stmt = s /\ attempt = k /\ built = None
              ELSE /\ built = Some("no_data")
                   /\ OutcomeOf(built[1]) = "skipped"
                   /\ stmt = s
                   /\ \A later \in Statements : later > s => answers[later] = <<>>
        /\ (built = None /\ stmt = s) => ENABLED NextRetry

\* the balance sheet was rate-limited at every attempt: two backoff sleeps,
\* the third error raised and turned into None
C22_Witness ==
    /\ Len(frames) = 1
    /\ RateLimitedAttempts(2) = 1..max_retries
    /\ Len(sleeps[2]) = max_retries - 1
    /\ built = Some("no_data")

----------------------------------------------------------------------------
(* Properties of the strategy builders (specification SpecPlan) *)

\* the swing plan as C26 describes it, prices in hundredths of a tick: an
\* ATR that is undefined takes nothing off the price
ClaimedSwing(price, sr, ind) ==
    LET nearest_support == SrGet(sr, "support")
        nearest_resistance == SrGet(sr, "resistance")
        first_stop == IF nearest_support # None THEN 100 * nearest_support[1]
                      ELSE 100 * (price - 2 * OrZero(ind.atr))
        floored == 100 * price - first_stop <= 0
        risk == IF floored THEN 5 * price ELSE 100 * price - first_stop
        points == (IF ind.rsi # None /\ ind.rsi[1] < 3000 THEN 2
                   ELSE IF ind.rsi # None /\ ind.rsi[1] < 4500 THEN 1 ELSE 0)
                  + (IF ind.macd = Some(1) THEN 1 ELSE 0)
                  + (IF ind.sma.sma50 # None /\ price > ind.sma.sma50[1] THEN 1 ELSE 0)
    IN  [stop |-> IF floored THEN 100 * price - risk ELSE first_stop,
         risk |-> risk,
         target |-> IF nearest_resistance # None THEN 100 * nearest_resistance[1]
                    ELSE 100 * price + 2 * risk,
         confidence |-> IF points >= 3 THEN "high"
                        ELSE IF points = 2 THEN "medium" ELSE "low"]

\* C26: the swing plan has the stop (nearest support, else price - 2 ATR),
\* the risk (price - stop, or 5% of the price with the stop moved when that
\* is not positive), the target (nearest resistance, else price + 2 risk)
\* and the confidence (high from 3 points, medium at 2, else low) claimed
C26_SwingPlanAsDescribed ==
    plans # <<>> =>
        LET claimed == ClaimedSwing(current_price,
                                    find_support_resistance(closes, SRWindow), indicators)
        IN  /\ plans[1].timeframe = "swing"
            /\ plans[1].stop_loss = Round(claimed.stop, 100)
            /\ plans[1].risk = Some(claimed.risk)
            /\ plans[1].take_profit = Round(claimed.target, 100)
            /\ plans[1].confidence = claimed.confidence

\* a swing plan without a support level, whose stop is two ATR under the
\* price and whose target is the resistance, of medium confidence
C26_Witness ==
    /\ plans # <<>>
    /\ SrGet(find_support_resistance(closes, SRWindow), "support") = None
    /\ SrGet(find_support_resistance(closes, SRWindow), "resistance") # None
    /\ Truthy(indicators.atr)
    /\ plans[1].stop_loss = current_price - 2 * indicators.atr[1]
    /\ plans[1].take_profit > current_price
    /\ plans[1].confidence = "medium"

\* C27 as claimed: the risk_reward_ratio of a swing or position plan is
\* reward / risk when its risk is positive and null when it is not, and the
\* one of a longterm plan is null
C27_RiskRewardDefinedOrNull ==
    \A i \in 1..Len(plans) :
        IF plans[i].timeframe = "longterm" THEN plans[i].risk_reward_ratio = None
        ELSE IF plans[i].risk[1] > 0
             THEN plans[i].risk_reward_ratio
                      = Some(Round(100 * plans[i].reward[1], plans[i].risk[1]))
        ELSE plans[i].risk_reward_ratio = None

\* C30 as claimed: a swing plan built for a positive price has
\* stop_loss < entry_price < take_profit and a positive risk
C30_SwingLevelsOrdered ==
    (plans # <<>> /\ current_price > 0)
    => /\ plans[1].stop_loss < plans[1].entry_price
       /\ plans[1].entry_price < plans[1].take_profit
       /\ plans[1].risk[1] > 0

====
